---- MODULE Spec2Model ----
(***************************************************************************)
(* Story Quest: the StoryGame component (src/src/components/StoryGame.tsx) *)
(* as a state machine.  One action per event handler, per continuation of  *)
(* an asynchronous turn (a network call settling) and per effect/timer.    *)
(* React state is the VARIABLES; a handler and the render + effects that   *)
(* follow it form one atomic step (single-threaded event loop).            *)
(*                                                                         *)
(* Texts are sequences of tokens: a narrative is the sequence of its       *)
(* stream chunks, an options answer is a sequence of lines.                *)
(***************************************************************************)
EXTENDS Integers, Sequences, FiniteSets, TLC

\* ---------------------------------------------------------------- bounds
MaxTurns == 2        \* narrative calls issued in one run of Spec
MaxTurnsLong == 3    \* narrative calls issued in one run of SpecLong
MaxChunks == 1       \* content chunks one narrative stream delivers
MaxResets == 1       \* presses of "Start New Adventure"
MaxMounts == 1       \* page loads after the first one
MaxInFlight == 2     \* slots for turns whose continuation is pending
MaxTicks == 1        \* clock readings tried next to 0 and next to the window
MaxLines == 3        \* lines in a response body of SpecStream
MaxCalls == 2        \* tool calls in an answer of SpecItems
MaxHeld == 2         \* items in an inventory of SpecItems
MaxBeats == 5        \* beats committed in SpecChapters
MaxAnswer == 4       \* characters in an answer of SpecDecision
MaxTokens == 4       \* tokens in a narrative of SpecParse
MaxOptionLines == 4  \* lines in an options answer of SpecParse
MaxSettings == 3     \* settings requests issued in one run of SpecAuth

\* ------------------------------------------------------ input alphabets
PositiveMarker == "**ENDING: POSITIVE**"
NegativeMarker == "**Defeat: negative**"
Markers == {PositiveMarker, NegativeMarker}
Chunks == {"text"} \cup Markers
Blank == " "
TypedTexts == {Blank, "go"}
Titles == {"Quest"}

NarrativeError == "Failed to generate story"
OptionsError == "Failed to generate options"

\* --------------------------------------------------------------- helpers
Last(s) == s[Len(s)]

Min(a, b) == IF a < b THEN a ELSE b

\* String.prototype.trim on a token text: whitespace tokens at both ends go.
RECURSIVE TrimLeft(_)
TrimLeft(s) == IF s # <<>> /\ Head(s) = Blank THEN TrimLeft(Tail(s)) ELSE s

RECURSIVE TrimRight(_)
TrimRight(s) ==
  IF s # <<>> /\ Last(s) = Blank THEN TrimRight(SubSeq(s, 1, Len(s) - 1)) ELSE s

Trim(s) == TrimRight(TrimLeft(s))

\* trim() of a typed input value: a blank input trims to the empty string.
TrimText(s) == IF s = Blank THEN "" ELSE s

\* ------------------------------------------------- narrative: the ending
\* The last position that holds an ending marker
EndingIndexOfLast(response) ==
  IF \E i \in 1..Len(response) : response[i] \in Markers
  THEN CHOOSE i \in 1..Len(response) :
         /\ response[i] \in Markers
         /\ \A j \in (i + 1)..Len(response) : response[j] \notin Markers
  ELSE 0

\* The first position of response that holds an ending marker, 0 if none
\* (response.match(/\*\*(...):\s*(POSITIVE|NEGATIVE)\*\*/i), then indexOf).
EndingIndex(response) ==
  IF \E i \in 1..Len(response) : response[i] \in Markers
  THEN CHOOSE i \in 1..Len(response) :
         /\ response[i] \in Markers
         /\ \A j \in 1..(i - 1) : response[j] \notin Markers
  ELSE 0

\* endingMatch[2].toLowerCase()
EndingPolarity(marker) == IF marker = PositiveMarker THEN "positive" ELSE "negative"

\* The locals gameEnded, endingType, endingMessage and storyText that
\* generateNextStoryStep computes from the full response.
ExtractEnding(response) ==
  LET i == EndingIndex(response) IN
  IF i = 0
  THEN [gameEnded |-> FALSE, endingType |-> "null", endingMessage |-> <<>>,
        storyText |-> Trim(response)]
  ELSE [gameEnded |-> TRUE,
        endingType |-> EndingPolarity(response[i]),
        endingMessage |-> Trim(SubSeq(response, i + 1, Len(response))),
        storyText |-> Trim(SubSeq(response, 1, i - 1))]

\* ------------------------------------------------ options: line parsing
\* A line of an options answer: lead = it starts with white space,
\* pre = what follows ("num" for digits and a dot, "dash" for a hyphen,
\* "bullet" for U+2022, "stray" for one of the three characters the character
\* class of the component holds where the bullet was meant, U+201A, U+00C4,
\* U+00A2, "none" for anything else), body = the trimmed rest ("" when
\* nothing is left).
NumLine(b) == [lead |-> FALSE, pre |-> "num", body |-> b]
DashLine(b) == [lead |-> FALSE, pre |-> "dash", body |-> b]
BulletLine(b) == [lead |-> FALSE, pre |-> "bullet", body |-> b]
StrayLine(b) == [lead |-> FALSE, pre |-> "stray", body |-> b]
PlainLine(b) == [lead |-> FALSE, pre |-> "none", body |-> b]
IndentedNumLine(b) == [lead |-> TRUE, pre |-> "num", body |-> b]

\* line.trim() is not empty
LineNotBlank(line) == line.pre # "none" \/ line.body # ""

\* line.match(/^\d+\.|^[...-]/), anchored at the first character, with the
\* class as the component has it: the three stray characters and the hyphen
LineHasPrefix(line) == ~line.lead /\ line.pre \in {"num", "dash", "stray"}

\* The same match with the class of LLMUtils: the bullet and the hyphen
LineHasPrefixInUtils(line) == ~line.lead /\ line.pre \in {"num", "dash", "bullet"}

\* line.replace(prefix, "").trim()
StripPrefix(line) == line.body

OptionNotEmpty(option) == option # ""

\* generateStoryOptions, from the answer's lines to the options it returns
ParseOptions(lines) ==
  LET kept == SelectSeq(SelectSeq(lines, LineNotBlank), LineHasPrefix)
      stripped == [i \in 1..Len(kept) |-> StripPrefix(kept[i])]
      nonEmpty == SelectSeq(stripped, OptionNotEmpty)
  IN SubSeq(nonEmpty, 1, Min(3, Len(nonEmpty)))

\* generateStoryOptions of LLMUtils: the same steps with its own class
ParseOptionsInUtils(lines) ==
  LET kept == SelectSeq(SelectSeq(lines, LineNotBlank), LineHasPrefixInUtils)
      stripped == [i \in 1..Len(kept) |-> StripPrefix(kept[i])]
      nonEmpty == SelectSeq(stripped, OptionNotEmpty)
  IN SubSeq(nonEmpty, 1, Min(3, Len(nonEmpty)))

\* The older parse inside generateNextStoryStep: every line from the first
\* prefixed one on is an option, its prefix replaced when it has one at its
\* first character, kept as written otherwise. An option is the text that is
\* left: [pre, body], pre "none" once the prefix is gone. Its class holds
\* U+00E2, U+20AC, U+00A2 and the hyphen: "stray" stands for these here.
LineText(line) ==
  IF LineHasPrefix(line) THEN [pre |-> "none", body |-> line.body]
  ELSE [pre |-> line.pre, body |-> line.body]

LineTextNotEmpty(text) == text.pre # "none" \/ text.body # ""

ParseOptionsInStory(lines) ==
  LET kept == SelectSeq(lines, LineNotBlank)
      starts == {i \in 1..Len(kept) : LineHasPrefix(kept[i])}
      first == IF starts = {} THEN Len(kept) + 1
               ELSE CHOOSE i \in starts : \A j \in starts : i <= j
      rest == SubSeq(kept, first, Len(kept))
      texts == SelectSeq([i \in 1..Len(rest) |-> LineText(rest[i])], LineTextNotEmpty)
  IN SubSeq(texts, 1, Min(3, Len(texts)))

\* No text was parsed
NoParse == [op |-> "none", response |-> <<>>, lines |-> <<>>,
            ending |-> ExtractEnding(<<>>), options |-> <<>>, inUtils |-> <<>>,
            inStory |-> <<>>]

\* The answers of the options service the model draws from.
OptionAnswers ==
  { <<PlainLine("Here is what I think.")>>,
    <<NumLine(""), NumLine("Go left"), DashLine("Wait")>> }

\* The defaults of the catch block of generateNextStoryStep
FallbackOptions ==
  << "Look around carefully for clues or items",
     "Continue forward cautiously",
     "Take a moment to think and plan your next move" >>

\* --------------------------------------------------- inventory: tool calls
AddItemCall(n, d, t) ==
  [fn |-> "add_item", hasArgs |-> TRUE,
   args |-> [item_name |-> n, item_description |-> d, item_type |-> t]]

\* The tool-call lists of the inventory service the model draws from.
ItemAnswers ==
  { <<>>,
    <<AddItemCall("Potion", "heals", "consumable")>>,
    <<AddItemCall("Coin", "shiny", "misc")>>,
    <<AddItemCall("", "nameless", "tool")>> }

\* The Item with usable: true whatever its type
NewItemAlwaysUsable(call, id) ==
  [id |-> id,
   name |-> call.args.item_name,
   description |-> call.args.item_description,
   type |-> call.args.item_type,
   usable |-> TRUE]

\* The Item built from one add_item call (id from Date.now() and Math.random(),
\* modelled as a fresh number).
NewItem(call, id) ==
  [id |-> id,
   name |-> call.args.item_name,
   description |-> call.args.item_description,
   type |-> call.args.item_type,
   usable |-> call.args.item_type # "misc"]

\* Whether the loop body of checkForItemsToAdd pushes an item for this call.
CallYieldsItem(call) ==
  /\ call.fn = "add_item"
  /\ call.hasArgs
  /\ call.args.item_name # ""
  /\ call.args.item_description # ""
  /\ call.args.item_type # ""

\* checkForItemsToAdd on an ok response: the items of the tool calls, in
\* order, ids counted up from firstId.
RECURSIVE ItemsOfCalls(_, _)
ItemsOfCalls(calls, firstId) ==
  IF calls = <<>> THEN <<>>
  ELSE IF CallYieldsItem(Head(calls))
       THEN <<NewItem(Head(calls), firstId)>> \o ItemsOfCalls(Tail(calls), firstId + 1)
       ELSE ItemsOfCalls(Tail(calls), firstId)

\* ------------------------------------------------------------ the state
VARIABLES
  gameState,        \* useState<GameState>
  isLoading, error, gameStarted, showStorySetup, customAction, storyTitle,
  streamingText, isStreaming, loadedFromSave, showInventory,
  selectedItemForCustomAction,  \* <<>> for null, <<item>> otherwise
  itemCustomAction,
  storage,          \* localStorage[STORY_SAVE_KEY]: <<>> or <<entry>>
  turns,            \* pending continuations of generateNextStoryStep
  regen,            \* a generateNewOptions call of the mount effect is pending
  loadTimer,        \* the 3 s timer of the mount effect is pending
  nTurns, nResets, nMounts, nextItemId,
  turnCap           \* how many narrative calls this run may issue

\* The session store on its own (saveGameState, loadGameState, clearSavedGame)
VARIABLES
  savedText,        \* localStorage[STORY_SAVE_KEY] as text: <<>> or <<text>>
  now,              \* the latest value Date.now() gave
  lastCall,         \* the last call made on the store and what it returned
  crashed           \* an effect threw and React took the component tree down

storeVars == <<savedText, now, lastCall, crashed>>

\* The chat calls and the authentication round trip
VARIABLES
  pendingAction,    \* localStorage["pending_action"], "" when absent
  href,             \* the location the page is leaving for, "" when it stays
  token,            \* getToken(): the page URL carries a token
  authTimer,        \* the 100 ms timer of the mount effect: <<>> or <<marker>>
  setup,            \* the state of the StorySetup component
  nSettings,        \* requests for settings issued so far
  lastChat          \* the last chat call made on its own and how it went

chatVars == <<pendingAction, href, token, authTimer, setup, nSettings, lastChat>>

\* The functions of LLMUtils applied on their own
VARIABLES
  lastStream,       \* the last response body read and what the reader made of it
  lastDelta,        \* the last list of tool calls resolved, on which inventory
  lastDecision,     \* the last answer to the chapter-end question and the decision
  lastParse         \* the last text parsed (a narrative or an options answer) and the result

\* The chapters of a story (GameState.chapters and its storyBeats)
VARIABLES
  chapterGame,      \* [storyBeats, chapters]
  chapterPc,        \* "idle", or the call the turn waits for: "check", "summary"
  nBeats,           \* beats committed so far
  nChecks           \* calls of checkForChapterEnd so far

chapterVars == <<chapterGame, chapterPc, nBeats, nChecks>>

pureVars == <<lastStream, lastDelta, lastDecision, chapterVars, lastParse>>

auxVars == <<storeVars, pureVars>>

uiVars == <<showInventory, selectedItemForCustomAction, itemCustomAction>>

vars == <<gameState, isLoading, error, gameStarted, showStorySetup, customAction,
          storyTitle, streamingText, isStreaming, loadedFromSave, showInventory,
          selectedItemForCustomAction, itemCustomAction, storage, turns, regen,
          loadTimer, nTurns, nResets, nMounts, nextItemId, turnCap, auxVars, chatVars>>

Slots == 1..MaxInFlight

\* The initial value of useState<GameState>, also what resetGame installs
EmptyGameState ==
  [storyBeats |-> <<>>, currentOptions |-> <<>>, inventory |-> <<>>,
   gameEnded |-> FALSE, endingType |-> "null", endingMessage |-> <<>>]

\* A StoryBeat as generateNextStoryStep creates it ("" = no selectedOption)
NewBeat(id, storyText) ==
  [id |-> id, storyText |-> storyText, availableOptions |-> <<>>,
   selectedOption |-> "", itemsFound |-> <<>>]

\* A slot with no pending continuation.  The fields of a slot: pc, where the
\* invocation waits ("narrative", "options", "items"); kind, the handler that
\* made it; id, the number in the id of its beat; content, the response
\* accumulated from the chunks; storyText, its local of that name; snap, the
\* gameState its closure holds.  stale (a reset ran since it started) and result
\* (how it ended) record history and steer nothing.
IdleTurn ==
  [pc |-> "idle", kind |-> "none", id |-> 0, content |-> <<>>,
   storyText |-> <<>>, snap |-> EmptyGameState, stale |-> FALSE,
   result |-> "none"]

\* The slot of a turn that is over; result tells how it went ("failed": the
\* narrative call, "ended": an ending was committed, "optionsFailed",
\* "settled": the inventory check came back)
OverTurn(result) == [IdleTurn EXCEPT !.result = result]

Active(t) == turns[t].pc # "idle"

InFlight == {t \in Slots : Active(t)}

\* ---------------------------------------------- the setGameState updaters
\* handleChoiceSelection: currentBeat.selectedOption = choice on the last beat
\* (the beat object is shared with the state, so the state sees it at once)
MarkSelected(gs, choice) ==
  IF gs.storyBeats = <<>> THEN gs
  ELSE [gs EXCEPT !.storyBeats[Len(gs.storyBeats)].selectedOption = choice]

\* handleItemUse / handleItemCustomAction: drop a consumable by id
RemoveItemById(items, id) ==
  LET Keep(i) == i.id # id IN SelectSeq(items, Keep)

ConsumeItem(prev, item) ==
  IF item.type = "consumable"
  THEN [prev EXCEPT !.inventory = RemoveItemById(prev.inventory, item.id)]
  ELSE prev

\* The beat update with storyBeats: [newBeat], the earlier beats dropped
CommitBeatAlone(prev, newBeat, ending) ==
  [prev EXCEPT !.storyBeats = <<newBeat>>,
               !.currentOptions = <<>>,
               !.gameEnded = ending.gameEnded,
               !.endingType = ending.endingType,
               !.endingMessage = ending.endingMessage]

\* The beat update without its currentOptions: [] line
CommitBeatKeepingOptions(prev, newBeat, ending) ==
  [prev EXCEPT !.storyBeats = Append(prev.storyBeats, newBeat),
               !.gameEnded = ending.gameEnded,
               !.endingType = ending.endingType,
               !.endingMessage = ending.endingMessage]

\* generateNextStoryStep: "Update game state with new beat"
CommitBeat(prev, newBeat, ending) ==
  [prev EXCEPT !.storyBeats = Append(prev.storyBeats, newBeat),
               !.currentOptions = <<>>,
               !.gameEnded = ending.gameEnded,
               !.endingType = ending.endingType,
               !.endingMessage = ending.endingMessage]

\* generateNextStoryStep: "Update the game state with the generated options"
ApplyOptions(prev, options) == [prev EXCEPT !.currentOptions = options]

\* The items update with the currentOptions: [] line of the beat update in it
ApplyItemsClearingOptions(prev, newItems) ==
  [prev EXCEPT
     !.storyBeats = IF prev.storyBeats = <<>> THEN <<>>
                    ELSE [prev.storyBeats EXCEPT ![Len(prev.storyBeats)].itemsFound = newItems],
     !.currentOptions = <<>>,
     !.inventory = prev.inventory \o newItems]

\* generateNextStoryStep: "Update both the story beat and inventory"
ApplyItems(prev, newItems) ==
  [prev EXCEPT
     !.storyBeats = IF prev.storyBeats = <<>> THEN <<>>
                    ELSE [prev.storyBeats EXCEPT ![Len(prev.storyBeats)].itemsFound = newItems],
     !.inventory = prev.inventory \o newItems]

\* A catch that only logs
ApplyFallbackForgotten(prev) == prev

\* generateNextStoryStep: the catch of the follow-up block
ApplyFallback(prev) == [prev EXCEPT !.currentOptions = FallbackOptions]

\* ------------------------------------------------------------ persistence
\* SavedGameState as saveGameState writes it; the timestamp is left to the
\* freshness input of loadGameState.
SaveEntry(gs, started, title) ==
  [gameState |-> gs, gameStarted |-> started, storyTitle |-> title]

\* The save effect with !isStreaming left out of its condition
AfterRenderWhileStreaming(gsSet, base) ==
  IF /\ \/ gsSet
        \/ gameStarted' # gameStarted
        \/ storyTitle' # storyTitle
        \/ isStreaming' # isStreaming
        \/ loadedFromSave' # loadedFromSave
     /\ gameStarted'
     /\ Len(gameState'.storyBeats) > 0
     /\ ~loadedFromSave'
  THEN <<[gameState |-> gameState', gameStarted |-> gameStarted', storyTitle |-> storyTitle']>>
  ELSE base

\* The save effect, run by the render that ends a step: it runs when one of
\* its dependencies changed (gsSet: setGameState installed a new object) and
\* writes when its condition holds; base is the storage the handler left.
AfterRender(gsSet, base) ==
  IF /\ \/ gsSet
        \/ gameStarted' # gameStarted
        \/ storyTitle' # storyTitle
        \/ isStreaming' # isStreaming
        \/ loadedFromSave' # loadedFromSave
     /\ gameStarted'
     /\ ~isStreaming'
     /\ Len(gameState'.storyBeats) > 0
     /\ ~loadedFromSave'
  THEN <<SaveEntry(gameState', gameStarted', storyTitle')>>
  ELSE base

\* ------------------------------------------------- chat calls: the status
\* The status codes the call sites tell apart
PaymentRequired == 402
Unauthorized == 401

\* A response as the call sites read it: status, the Location header ("" when
\* there is none) and the body text
Responses ==
  [status : {200, Unauthorized, PaymentRequired, 500},
   location : {"", "https://auth"},
   body : {"", "out of credit"}]

\* response.ok
IsOk(resp) == resp.status \in 200..299

\* What a call does to the browser, in order
SetItem(v) == [e |-> "setItem", v |-> v]
Navigate(v) == [e |-> "navigate", v |-> v]
RemoveItem == [e |-> "removeItem", v |-> ""]

\* How a call ends: a value returned, or an Error thrown.  An Error is told by
\* its message: "Redirecting to Peerwave auth", or "Failed to generate <what>:
\* <status>" followed by the body text when the site appends it.
NoError == [name |-> "none", what |-> "", status |-> 0, body |-> <<>>]
Redirecting == [name |-> "redirecting", what |-> "", status |-> 0, body |-> <<>>]
RequestFailed(what, status, body) ==
  [name |-> "failed", what |-> what, status |-> status, body |-> body]
Return == [kind |-> "return", error |-> NoError]
Throw(err) == [kind |-> "throw", error |-> err]

\* fetchAndStream(label, req, onChunk) up to the first read of the body
FetchAndStream(label, resp) ==
  IF ~IsOk(resp)
  THEN IF resp.status = PaymentRequired /\ resp.location # ""
       THEN [effects |-> <<SetItem(label), Navigate(resp.location)>>,
             result |-> Throw(Redirecting)]
       ELSE [effects |-> <<>>,
             result |-> Throw(RequestFailed(label, resp.status, <<resp.body>>))]
  ELSE [effects |-> <<RemoveItem>>, result |-> Return]

\* fetchStoryContent of StoryGame.tsx up to the first read of the body
FetchStoryContent(resp) ==
  IF ~IsOk(resp)
  THEN IF resp.status = PaymentRequired /\ resp.location # ""
       THEN [effects |-> <<SetItem("start_game"), Navigate(resp.location)>>,
             result |-> Throw(Redirecting)]
       ELSE [effects |-> <<>>,
             result |-> Throw(RequestFailed("story", resp.status, <<resp.body>>))]
  ELSE [effects |-> <<RemoveItem>>, result |-> Return]

\* generateStoryOptions of StoryGame.tsx up to the read of the body
GenerateStoryOptions(resp) ==
  IF ~IsOk(resp)
  THEN [effects |-> <<>>, result |-> Throw(RequestFailed("options", resp.status, <<>>))]
  ELSE [effects |-> <<>>, result |-> Return]

\* checkForItemsToAdd of StoryGame.tsx: a bad status makes it return []
CheckForItemsToAdd(resp) == [effects |-> <<>>, result |-> Return]

\* generateSettings of LLMUtils.ts up to the read of the body
GenerateSettings(resp) ==
  IF ~IsOk(resp)
  THEN IF resp.status \in {PaymentRequired, Unauthorized} /\ resp.location # ""
       THEN [effects |-> <<SetItem("generate_options"), Navigate(resp.location)>>,
             result |-> Throw(Redirecting)]
       ELSE [effects |-> <<>>,
             result |-> Throw(RequestFailed("story options", resp.status, <<>>))]
  ELSE [effects |-> <<>>, result |-> Return]

\* The call sites and the labels they are called with (a site that takes no
\* label goes by the name it stores or, storing none, by its own)
Sites ==
  {"fetchAndStream", "fetchStoryContent", "generateStoryOptions",
   "checkForItemsToAdd", "generateSettings"}

SiteLabels(site) ==
  CASE site = "fetchAndStream" ->
         {"generateSettings", "fetchStoryContent", "generateStoryOptions"}
    [] site = "fetchStoryContent" -> {"start_game"}
    [] site = "generateSettings" -> {"generate_options"}
    [] OTHER -> {site}

ChatOutcome(site, label, resp) ==
  CASE site = "fetchAndStream" -> FetchAndStream(label, resp)
    [] site = "fetchStoryContent" -> FetchStoryContent(resp)
    [] site = "generateStoryOptions" -> GenerateStoryOptions(resp)
    [] site = "checkForItemsToAdd" -> CheckForItemsToAdd(resp)
    [] OTHER -> GenerateSettings(resp)

\* localStorage["pending_action"] and window.location.href after effects
RECURSIVE MarkerAfter(_, _)
MarkerAfter(marker, effects) ==
  IF effects = <<>> THEN marker
  ELSE MarkerAfter(CASE Head(effects).e = "setItem" -> Head(effects).v
                     [] Head(effects).e = "removeItem" -> ""
                     [] OTHER -> marker,
                   Tail(effects))

RECURSIVE HrefAfter(_, _)
HrefAfter(target, effects) ==
  IF effects = <<>> THEN target
  ELSE HrefAfter(IF Head(effects).e = "navigate" THEN Head(effects).v ELSE target,
                 Tail(effects))

\* No chat call was made on its own
NoChat ==
  [site |-> "none", label |-> "", resp |-> [status |-> 200, location |-> "", body |-> ""],
   effects |-> <<>>, result |-> Return, markerBefore |-> ""]

\* StorySetup is not rendered
SetupUnmounted ==
  [mounted |-> FALSE, error |-> "", isLoadingOptions |-> FALSE, hasOptions |-> FALSE,
   requests |-> <<>>, timers |-> <<>>]

ChatIdle ==
  /\ pendingAction = ""
  /\ href = ""
  /\ token = FALSE
  /\ authTimer = <<>>
  /\ setup = SetupUnmounted
  /\ nSettings = 0
  /\ lastChat = NoChat

\* ------------------------------------------------ reading a response body
\* The lines a body is made of: a blank one, one that JSON.parse takes
\* (message.content, "" when there is none, and message.tool_calls), and one
\* that JSON.parse refuses
BlankLine == [kind |-> "blank", content |-> "", tools |-> <<>>]
JsonLine(content, tools) == [kind |-> "json", content |-> content, tools |-> tools]
BadLine == [kind |-> "bad", content |-> "", tools |-> <<>>]

Deltas == {"", "a", "b"}
ToolFragments == {<<>>, <<"t1", "t2">>}
WellFormedLines == {BlankLine} \cup {JsonLine(c, t) : c \in Deltas, t \in ToolFragments}
Lines == WellFormedLines \cup {BadLine}

\* How reader.read() cuts the body after or inside a line: it is not cut there,
\* cut at the line's end, or cut inside the line
Cuts == {"none", "after", "inside"}

\* What chunk.split("\n") finds in a read: lines, and the part of a line that
\* the read holds when the body was cut inside it
Segment(line, part) == [line |-> line, part |-> part]

\* The reads of a body of lines cut as cuts tells, the open read first
RECURSIVE ReadsFrom(_, _, _)
ReadsFrom(lines, cuts, open) ==
  IF lines = <<>> THEN (IF open = <<>> THEN <<>> ELSE <<open>>)
  ELSE CASE Head(cuts) = "none" ->
              ReadsFrom(Tail(lines), Tail(cuts), open \o <<Segment(Head(lines), "whole")>>)
         [] Head(cuts) = "after" ->
              <<open \o <<Segment(Head(lines), "whole")>>>>
                \o ReadsFrom(Tail(lines), Tail(cuts), <<>>)
         [] OTHER ->
              <<open \o <<Segment(Head(lines), "head")>>>>
                \o ReadsFrom(Tail(lines), Tail(cuts), <<Segment(Head(lines), "tail")>>)

ReadsOf(lines, cuts) == ReadsFrom(lines, cuts, <<>>)

\* line.trim() === "", and JSON.parse(cleaned): a part of a line is no JSON
IsBlank(seg) == seg.line.kind = "blank"
Parses(seg) == seg.line.kind = "json" /\ seg.part = "whole"

\* What the loop has so far: fullContent, toolCalls, the calls of onChunk, and
\* whether JSON.parse threw
NothingRead == [content |-> <<>>, tools |-> <<>>, chunks |-> <<>>, thrown |-> FALSE]

\* The body of `for (const line of lines)` of fetchAndStream
ReadLine(acc, seg) ==
  IF acc.thrown \/ IsBlank(seg) THEN acc
  ELSE IF ~Parses(seg) THEN [acc EXCEPT !.thrown = TRUE]
  ELSE LET withTools == [acc EXCEPT !.tools = acc.tools \o seg.line.tools]
       IN IF seg.line.content = "" THEN withTools
          ELSE [withTools EXCEPT !.chunks = withTools.chunks \o <<seg.line.content>>,
                                 !.content = withTools.content \o <<seg.line.content>>]

\* The body of `for (const line of lines)` of fetchStoryContent (StoryGame.tsx)
ReadStoryLine(acc, seg) ==
  IF acc.thrown \/ IsBlank(seg) THEN acc
  ELSE IF ~Parses(seg) THEN [acc EXCEPT !.thrown = TRUE]
  ELSE IF seg.line.content = "" THEN acc
  ELSE [acc EXCEPT !.chunks = acc.chunks \o <<seg.line.content>>,
                   !.content = acc.content \o <<seg.line.content>>]

RECURSIVE ReadSegments(_, _, _)
ReadSegments(site, acc, segs) ==
  IF segs = <<>> THEN acc
  ELSE ReadSegments(site,
                    IF site = "fetchAndStream" THEN ReadLine(acc, Head(segs))
                    ELSE ReadStoryLine(acc, Head(segs)),
                    Tail(segs))

\* while (!loopDone): one reader.read() after the other
RECURSIVE ReadBody(_, _, _)
ReadBody(site, acc, reads) ==
  IF reads = <<>> THEN acc
  ELSE ReadBody(site, ReadSegments(site, acc, Head(reads)), Tail(reads))

\* The streaming part of a call of site on a body: what it returns or that it
\* throws, and the calls of onChunk made on the way
StreamOutcome(site, reads) ==
  LET acc == ReadBody(site, NothingRead, reads)
  IN [returned |-> ~acc.thrown,
      content |-> IF acc.thrown THEN <<>> ELSE acc.content,
      tools |-> IF acc.thrown THEN <<>> ELSE acc.tools,
      chunks |-> acc.chunks]

StreamSites == {"fetchAndStream", "fetchStoryContent"}

\* No body was read on its own
NoStream ==
  [site |-> "none", lines |-> <<>>, cuts |-> <<>>,
   out |-> [returned |-> TRUE, content |-> <<>>, tools |-> <<>>, chunks |-> <<>>]]

\* ------------------------------------- the inventory delta of the tool calls
\* Item["type"]
ItemTypes == {"weapon", "tool", "consumable", "key", "misc"}

RemoveItemCall(n, r) ==
  [fn |-> "remove_item", hasArgs |-> TRUE, args |-> [item_name |-> n, reason |-> r]]

\* A tool call without function.arguments, and one without function
WithoutArguments(fn) == [fn |-> fn, hasArgs |-> FALSE, args |-> <<>>]
WithoutFunction == [fn |-> "undefined", hasArgs |-> FALSE, args |-> <<>>]

\* The tool calls the model draws from ("" stands for a field left out)
ToolCalls ==
  { AddItemCall("Potion", "heals", "consumable"),
    AddItemCall("Coin", "shiny", "misc"),
    AddItemCall("", "nameless", "tool"),
    AddItemCall("Shield", "sturdy", "armor"),
    WithoutArguments("add_item"),
    RemoveItemCall("Potion", "drunk"),
    RemoveItemCall("Potion", ""),
    RemoveItemCall("", "lost"),
    WithoutArguments("remove_item"),
    WithoutFunction }

\* The remove_item branch testing a field that the arguments do not have
CallYieldsRemovalByOtherField(call) ==
  /\ call.fn = "remove_item"
  /\ call.hasArgs
  /\ FALSE

\* `if (args.item_name)` of the remove_item branch; args.item_name of a call
\* without arguments throws into the catch of the branch
CallYieldsRemoval(call) ==
  /\ call.fn = "remove_item"
  /\ call.hasArgs
  /\ call.args.item_name # ""

\* for (const toolCall of resp.tool_calls): thrown when toolCall.function.name
\* cannot be read, which no catch of the loop body covers
RECURSIVE DeltaOfCalls(_, _)
DeltaOfCalls(calls, firstId) ==
  IF calls = <<>> THEN [itemsToAdd |-> <<>>, itemsToRemove |-> <<>>, thrown |-> FALSE]
  ELSE IF Head(calls) = WithoutFunction
       THEN [itemsToAdd |-> <<>>, itemsToRemove |-> <<>>, thrown |-> TRUE]
       ELSE LET adds == IF CallYieldsItem(Head(calls))
                        THEN <<NewItem(Head(calls), firstId)>> ELSE <<>>
                removes == IF CallYieldsRemoval(Head(calls))
                           THEN <<Head(calls).args.item_name>> ELSE <<>>
                rest == DeltaOfCalls(Tail(calls), firstId + Len(adds))
            IN [itemsToAdd |-> adds \o rest.itemsToAdd,
                itemsToRemove |-> removes \o rest.itemsToRemove,
                thrown |-> rest.thrown]

EmptyDelta == [itemsToAdd |-> <<>>, itemsToRemove |-> <<>>]

\* checkForItemsToAdd of the LLMUtils that knows remove_item, on the tool
\* calls of an answered request: the delta, the empty one from the outer catch
ResolveInventoryDelta(calls, firstId) ==
  LET d == DeltaOfCalls(calls, firstId)
  IN IF d.thrown THEN EmptyDelta
     ELSE [itemsToAdd |-> d.itemsToAdd, itemsToRemove |-> d.itemsToRemove]

\* The reducer's side of the delta: removal by name takes the first item of
\* that name out, additions go to the end
RECURSIVE RemoveFirstByName(_, _)
RemoveFirstByName(items, name) ==
  IF items = <<>> THEN <<>>
  ELSE IF Head(items).name = name THEN Tail(items)
  ELSE <<Head(items)>> \o RemoveFirstByName(Tail(items), name)

RECURSIVE RemoveAllFirstByName(_, _)
RemoveAllFirstByName(items, names) ==
  IF names = <<>> THEN items
  ELSE RemoveAllFirstByName(RemoveFirstByName(items, Head(names)), Tail(names))

ApplyDelta(inventory, delta) ==
  RemoveAllFirstByName(inventory, delta.itemsToRemove) \o delta.itemsToAdd

\* No list of tool calls was resolved on its own
NoDelta == [op |-> "none", inventory |-> <<>>, calls |-> <<>>, delta |-> EmptyDelta,
            after |-> <<>>]

\* ------------------------------------------------- the chapter-end decision
\* Texts are sequences of characters
Whitespace == {" ", "\n"}
Characters == Whitespace \cup {"y", "e", "s", "Y", "E", "S", "N", "."}

\* String.prototype.toUpperCase, character by character
UpperChar(c) ==
  CASE c = "y" -> "Y"
    [] c = "e" -> "E"
    [] c = "s" -> "S"
    [] OTHER -> c

ToUpperCase(text) == [i \in 1..Len(text) |-> UpperChar(text[i])]

\* String.prototype.trim on a text of characters
RECURSIVE TrimStart(_)
TrimStart(text) ==
  IF text # <<>> /\ Head(text) \in Whitespace THEN TrimStart(Tail(text)) ELSE text

RECURSIVE TrimEnd(_)
TrimEnd(text) ==
  IF text # <<>> /\ text[Len(text)] \in Whitespace
  THEN TrimEnd(SubSeq(text, 1, Len(text) - 1)) ELSE text

TrimAnswer(text) == TrimEnd(TrimStart(text))

\* The comparison without the trim
AnswerIsYesUntrimmed(text) == ToUpperCase(text) = <<"Y", "E", "S">>

\* answer === "YES" for answer = content.trim().toUpperCase()
AnswerIsYes(text) == ToUpperCase(TrimAnswer(text)) = <<"Y", "E", "S">>

\* The ways the request ends: fetch rejects, a status that is not ok, an ok
\* answer without message.content, a streamed answer with a line that does
\* not parse (the fetchAndStream variant), an ok answer with content
Failed(how) == [how |-> how, content |-> <<>>]
Answered(text) == [how |-> "ok", content |-> text]
FailureKinds == {"network", "status", "noContent", "parse"}

\* checkForChapterEnd: false from `if (!response.ok)` and from the catch
ChapterDecision(resp) ==
  IF resp.how # "ok" THEN FALSE ELSE AnswerIsYes(resp.content)

\* No answer was judged
NoDecision == [op |-> "none", resp |-> Failed("network"), decision |-> FALSE]

\* ------------------------------------------------------ the chapter summary
\* The answers of the summary request: lines as [tag, text], tag the label in
\* front of the text as written, "" without one
SummaryLine(tag, text) == [tag |-> tag, text |-> text]
SummaryAnswers ==
  { <<SummaryLine("TITLE:", "The Cave"), SummaryLine("SUMMARY:", "You got out.")>>,
    <<SummaryLine("summary:", "You got out.")>>,
    <<SummaryLine("", "I cannot do that.")>> }

UpperTag(tag) ==
  CASE tag = "title:" -> "TITLE:"
    [] tag = "summary:" -> "SUMMARY:"
    [] OTHER -> tag

\* content.match(/TITLE:\s*(.+)/i) and its SUMMARY twin: the text of the first
\* line with that label, <<>> for no match
FirstTagged(lines, tag) ==
  LET Tagged(l) == UpperTag(l.tag) = tag
      found == SelectSeq(lines, Tagged)
  IN IF found = <<>> THEN <<>> ELSE <<found[1].text>>

PlaceholderTitle == "Chapter <Date.now()>"
PlaceholderSummary == "A significant chapter in the adventure."

\* generateChapterSummary: the parsed pair, the placeholders for what is
\* missing and for a failed request
GenerateChapterSummary(ok, lines) ==
  LET title == IF ok THEN FirstTagged(lines, "TITLE:") ELSE <<>>
      summary == IF ok THEN FirstTagged(lines, "SUMMARY:") ELSE <<>>
  IN [title |-> IF title = <<>> THEN PlaceholderTitle ELSE title[1],
      summary |-> IF summary = <<>> THEN PlaceholderSummary ELSE summary[1]]

\* ------------------------------------------- the reducer's side of chapters
\* The beat count from which the chapter-end check is made
ChapterThreshold == 3

\* The check made one beat early
ChapterCheckDueOneEarly(beats) == Len(beats) >= ChapterThreshold - 1

\* Whether the turn that has just committed a beat asks for the chapter end
ChapterCheckDue(beats) == Len(beats) >= ChapterThreshold

\* The fold that keeps no beat
FoldChapterKeepingNone(game, pair, id) ==
  [storyBeats |-> <<>>,
   chapters |-> game.chapters \o
                  <<[id |-> id, title |-> pair.title, summary |-> pair.summary,
                     storyBeats |-> game.storyBeats]>>]

\* The fold: the chapter takes a copy of the beats, the latest beat stays
FoldChapter(game, pair, id) ==
  [storyBeats |-> <<game.storyBeats[Len(game.storyBeats)]>>,
   chapters |-> game.chapters \o
                  <<[id |-> id, title |-> pair.title, summary |-> pair.summary,
                     storyBeats |-> game.storyBeats]>>]

NoChapters == [storyBeats |-> <<>>, chapters |-> <<>>]

PureIdle ==
  /\ lastStream = NoStream
  /\ lastDelta = NoDelta
  /\ lastDecision = NoDecision
  /\ chapterGame = NoChapters
  /\ chapterPc = "idle"
  /\ nBeats = 0
  /\ nChecks = 0
  /\ lastParse = NoParse

\* How a call shows to the one that follows it
Tag(call) == IF call.op = "save" THEN call.outcome ELSE call.op

\* Nothing has called the store on its own
NoCall == [op |-> "none", outcome |-> "none", value |-> <<>>, after |-> "none"]

StoreIdle ==
  /\ savedText = <<>>
  /\ now = 0
  /\ lastCall = NoCall
  /\ crashed = FALSE

\* ------------------------------------------------------------------ Init
Init ==
  /\ gameState = EmptyGameState
  /\ isLoading = FALSE
  /\ error = ""
  /\ gameStarted = FALSE
  /\ showStorySetup = FALSE
  /\ customAction = ""
  /\ storyTitle = ""
  /\ streamingText = <<>>
  /\ isStreaming = FALSE
  /\ loadedFromSave = FALSE
  /\ showInventory = FALSE
  /\ selectedItemForCustomAction = <<>>
  /\ itemCustomAction = ""
  /\ storage = <<>>
  /\ turns = [t \in Slots |-> IdleTurn]
  /\ regen = FALSE
  /\ loadTimer = FALSE
  /\ nTurns = 0
  /\ nResets = 0
  /\ nMounts = 0
  /\ nextItemId = 1
  /\ turnCap = MaxTurns
  /\ StoreIdle
  /\ ChatIdle
  /\ PureIdle

\* ------------------------------------------------------- what is on screen
SetupView == showStorySetup
StartView == ~showStorySetup /\ ~gameStarted
MainView == ~showStorySetup /\ gameStarted

\* The action controls with isLoading left out of their disabled condition
ControlsEnabledIgnoringLoading == ~isStreaming

\* disabled={isLoading || isStreaming} of the action controls
ControlsEnabled == ~(isLoading \/ isStreaming)

\* The options container with its buttons and the free-text input
OptionsShown ==
  /\ MainView
  /\ \/ Len(gameState.currentOptions) > 0
     \/ (isStreaming /\ Len(gameState.storyBeats) > 0)
  /\ ~gameState.gameEnded
  /\ ~isStreaming

\* The inventory button: shown with items, disabled={isLoading && !isStreaming}
InventoryButtonEnabled ==
  /\ MainView
  /\ Len(gameState.inventory) > 0
  /\ ~(isLoading /\ ~isStreaming)

ModalShown == MainView /\ showInventory

ModalItems == IF ModalShown THEN {gameState.inventory[i] : i \in 1..Len(gameState.inventory)} ELSE {}

\* The custom-action section of the modal
CustomSectionShown ==
  /\ ModalShown
  /\ Len(gameState.inventory) > 0
  /\ selectedItemForCustomAction # <<>>

\* ------------------------------------------------- starting and ending turns
FreeSlot == CHOOSE t \in Slots : ~Active(t) /\ \A u \in Slots : u < t => Active(u)

CanStartTurn == nTurns < turnCap /\ \E t \in Slots : ~Active(t)

\* generateNextStoryStep up to its first await: the loading flags go up and the
\* narrative request is on the wire.  snap is the gameState of the render whose
\* handler made the call (what the closure keeps reading later).
StartTurn(kind, snap) ==
  /\ isLoading' = TRUE
  /\ isStreaming' = TRUE
  /\ streamingText' = <<>>
  /\ error' = ""
  /\ nTurns' = nTurns + 1
  /\ turns' = [turns EXCEPT ![FreeSlot] =
                 [pc |-> "narrative", kind |-> kind, id |-> nTurns + 1,
                  content |-> <<>>, storyText |-> <<>>, snap |-> snap,
                  stale |-> FALSE, result |-> "none"]]

\* The finally block without setIsLoading(false)
FinallyStillLoading(t, result) ==
  /\ isLoading' = isLoading
  /\ isStreaming' = FALSE
  /\ streamingText' = <<>>
  /\ customAction' = IF turns[t].kind = "choice" THEN "" ELSE customAction
  /\ turns' = [turns EXCEPT ![t] = OverTurn(result)]

\* The finally block of generateNextStoryStep, then what the awaiting handler
\* does next (handleChoiceSelection clears the free-text input).
Finally(t, result) ==
  /\ isLoading' = FALSE
  /\ isStreaming' = FALSE
  /\ streamingText' = <<>>
  /\ customAction' = IF turns[t].kind = "choice" THEN "" ELSE customAction
  /\ turns' = [turns EXCEPT ![t] = OverTurn(result)]

\* ------------------------------------------------------------ UI handlers
HandleStartGame ==
  /\ StartView
  /\ ~isLoading
  /\ showStorySetup' = TRUE
  /\ UNCHANGED <<gameState, isLoading, error, gameStarted, customAction, storyTitle,
                 streamingText, isStreaming, loadedFromSave, uiVars, storage, turns,
                 regen, loadTimer, nTurns, nResets, nMounts, nextItemId, turnCap, auxVars>>

HandleStartStoryWithPrompt(title) ==
  /\ SetupView
  /\ ~isLoading
  /\ CanStartTurn
  /\ showStorySetup' = FALSE
  /\ storyTitle' = title
  /\ gameStarted' = TRUE
  /\ StartTurn("premise", gameState)
  /\ UNCHANGED <<gameState, customAction, loadedFromSave, uiVars, regen, loadTimer,
                 nResets, nMounts, nextItemId, turnCap, auxVars>>
  /\ storage' = AfterRender(FALSE, storage)

\* handleChoiceSelection, as the option buttons and handleCustomAction call it
ChoiceSelection(choice) ==
  /\ CanStartTurn
  /\ gameState' = MarkSelected(gameState, choice)
  /\ StartTurn("choice", gameState)
  /\ UNCHANGED <<gameStarted, showStorySetup, customAction, storyTitle, loadedFromSave,
                 uiVars, regen, loadTimer, nResets, nMounts, nextItemId, turnCap, auxVars>>
  /\ storage' = AfterRender(TRUE, storage)

HandleChoiceSelection ==
  /\ OptionsShown
  /\ ControlsEnabled
  /\ \E i \in 1..Len(gameState.currentOptions) : ChoiceSelection(gameState.currentOptions[i])

TypeCustomAction(text) ==
  /\ OptionsShown
  /\ ControlsEnabled
  /\ text # customAction
  /\ customAction' = text
  /\ UNCHANGED <<gameState, isLoading, error, gameStarted, showStorySetup, storyTitle,
                 streamingText, isStreaming, loadedFromSave, uiVars, storage, turns,
                 regen, loadTimer, nTurns, nResets, nMounts, nextItemId, turnCap, auxVars>>

HandleCustomAction ==
  /\ OptionsShown
  /\ ControlsEnabled
  /\ TrimText(customAction) # ""
  /\ ChoiceSelection(TrimText(customAction))

OpenInventory ==
  /\ InventoryButtonEnabled
  /\ ~showInventory
  /\ showInventory' = TRUE
  /\ UNCHANGED <<gameState, isLoading, error, gameStarted, showStorySetup, customAction,
                 storyTitle, streamingText, isStreaming, loadedFromSave,
                 selectedItemForCustomAction, itemCustomAction, storage, turns, regen,
                 loadTimer, nTurns, nResets, nMounts, nextItemId, turnCap, auxVars>>

CloseInventory ==
  /\ ModalShown
  /\ showInventory' = FALSE
  /\ selectedItemForCustomAction' = <<>>
  /\ itemCustomAction' = ""
  /\ UNCHANGED <<gameState, isLoading, error, gameStarted, showStorySetup, customAction,
                 storyTitle, streamingText, isStreaming, loadedFromSave, storage, turns,
                 regen, loadTimer, nTurns, nResets, nMounts, nextItemId, turnCap, auxVars>>

\* handleItemClick: go to the beat where the item was found, if there is one
HandleItemClick(item) ==
  /\ item \in ModalItems
  /\ \E b \in 1..Len(gameState.storyBeats) :
       \E f \in 1..Len(gameState.storyBeats[b].itemsFound) :
         gameState.storyBeats[b].itemsFound[f].id = item.id
  /\ showInventory' = FALSE
  /\ UNCHANGED <<gameState, isLoading, error, gameStarted, showStorySetup, customAction,
                 storyTitle, streamingText, isStreaming, loadedFromSave,
                 selectedItemForCustomAction, itemCustomAction, storage, turns, regen,
                 loadTimer, nTurns, nResets, nMounts, nextItemId, turnCap, auxVars>>

\* The "Use" button: handleItemUseFromModal, handleItemUse
HandleItemUseFromModal(item) ==
  /\ item \in ModalItems
  /\ item.usable
  /\ ~gameState.gameEnded
  /\ ControlsEnabled
  /\ CanStartTurn
  /\ gameState' = ConsumeItem(gameState, item)
  /\ StartTurn("item", gameState)
  /\ showInventory' = FALSE
  /\ UNCHANGED <<gameStarted, showStorySetup, customAction, storyTitle, loadedFromSave,
                 selectedItemForCustomAction, itemCustomAction, regen, loadTimer,
                 nResets, nMounts, nextItemId, turnCap, auxVars>>
  /\ storage' = AfterRender(item.type = "consumable", storage)

\* The "Describe" button
SelectItemForCustomAction(item) ==
  /\ item \in ModalItems
  /\ ~gameState.gameEnded
  /\ ControlsEnabled
  /\ selectedItemForCustomAction # <<item>>
  /\ selectedItemForCustomAction' = <<item>>
  /\ UNCHANGED <<gameState, isLoading, error, gameStarted, showStorySetup, customAction,
                 storyTitle, streamingText, isStreaming, loadedFromSave, showInventory,
                 itemCustomAction, storage, turns, regen, loadTimer, nTurns, nResets,
                 nMounts, nextItemId, turnCap, auxVars>>

TypeItemCustomAction(text) ==
  /\ CustomSectionShown
  /\ ControlsEnabled
  /\ text # itemCustomAction
  /\ itemCustomAction' = text
  /\ UNCHANGED <<gameState, isLoading, error, gameStarted, showStorySetup, customAction,
                 storyTitle, streamingText, isStreaming, loadedFromSave, showInventory,
                 selectedItemForCustomAction, storage, turns, regen, loadTimer, nTurns,
                 nResets, nMounts, nextItemId, turnCap, auxVars>>

\* The "Use It" button and the Enter key of the custom-action section
HandleItemCustomAction ==
  /\ CustomSectionShown
  /\ ControlsEnabled
  /\ TrimText(itemCustomAction) # ""
  /\ CanStartTurn
  /\ gameState' = ConsumeItem(gameState, selectedItemForCustomAction[1])
  /\ itemCustomAction' = ""
  /\ selectedItemForCustomAction' = <<>>
  /\ showInventory' = FALSE
  /\ StartTurn("itemCustom", gameState)
  /\ UNCHANGED <<gameStarted, showStorySetup, customAction, storyTitle, loadedFromSave,
                 regen, loadTimer, nResets, nMounts, nextItemId, turnCap, auxVars>>
  /\ storage' = AfterRender(selectedItemForCustomAction[1].type = "consumable", storage)

CancelItemCustomAction ==
  /\ CustomSectionShown
  /\ ControlsEnabled
  /\ selectedItemForCustomAction' = <<>>
  /\ itemCustomAction' = ""
  /\ UNCHANGED <<gameState, isLoading, error, gameStarted, showStorySetup, customAction,
                 storyTitle, streamingText, isStreaming, loadedFromSave, showInventory,
                 storage, turns, regen, loadTimer, nTurns, nResets, nMounts, nextItemId, turnCap, auxVars>>

\* resetGame ("Start New Adventure"); a pending turn is not told about it
ResetGame ==
  /\ MainView
  /\ nResets < MaxResets
  /\ nResets' = nResets + 1
  /\ gameState' = EmptyGameState
  /\ gameStarted' = FALSE
  /\ showStorySetup' = FALSE
  /\ error' = ""
  /\ customAction' = ""
  /\ storyTitle' = ""
  /\ streamingText' = <<>>
  /\ isStreaming' = FALSE
  /\ loadedFromSave' = FALSE
  /\ turns' = [t \in Slots |-> IF Active(t) THEN [turns[t] EXCEPT !.stale = TRUE]
                                ELSE turns[t]]
  /\ UNCHANGED <<isLoading, uiVars, regen, loadTimer, nTurns, nMounts, nextItemId, turnCap, auxVars>>
  /\ storage' = AfterRender(TRUE, <<>>)

\* ------------------------------------ continuations of generateNextStoryStep
\* onChunk: one content delta of the narrative stream arrives
StreamChunk(t, chunk) ==
  /\ turns[t].pc = "narrative"
  /\ Len(turns[t].content) < MaxChunks
  /\ streamingText' = streamingText \o <<chunk>>
  /\ turns' = [turns EXCEPT ![t].content = turns[t].content \o <<chunk>>]
  /\ UNCHANGED <<gameState, isLoading, error, gameStarted, showStorySetup, customAction,
                 storyTitle, isStreaming, loadedFromSave, uiVars, storage, regen,
                 loadTimer, nTurns, nResets, nMounts, nextItemId, turnCap, auxVars>>

\* The continuation without the `if (!gameEnded)` test: the options request
\* goes out after an ending too
NarrativeDoneThenOptions(t) ==
  /\ turns[t].pc = "narrative"
  /\ LET ending == ExtractEnding(turns[t].content)
         newBeat == NewBeat(turns[t].id, ending.storyText)
     IN /\ gameState' = CommitBeat(gameState, newBeat, ending)
        /\ isStreaming' = FALSE
        /\ streamingText' = <<>>
        /\ turns' = [turns EXCEPT ![t].pc = "options",
                                  ![t].storyText = ending.storyText]
        /\ UNCHANGED <<isLoading, customAction>>
  /\ UNCHANGED <<error, gameStarted, showStorySetup, storyTitle, loadedFromSave, uiVars,
                 regen, loadTimer, nTurns, nResets, nMounts, nextItemId, turnCap, auxVars>>
  /\ storage' = AfterRender(TRUE, storage)

\* fetchStoryContent resolves: ending extraction, the new beat, and either the
\* options request (no ending) or the finally block (ending)
NarrativeDone(t) ==
  /\ turns[t].pc = "narrative"
  /\ LET ending == ExtractEnding(turns[t].content)
         newBeat == NewBeat(turns[t].id, ending.storyText)
     IN /\ gameState' = CommitBeat(gameState, newBeat, ending)
        /\ IF ending.gameEnded
           THEN Finally(t, "ended")
           ELSE /\ isStreaming' = FALSE
                /\ streamingText' = <<>>
                /\ turns' = [turns EXCEPT ![t].pc = "options",
                                          ![t].storyText = ending.storyText]
                /\ UNCHANGED <<isLoading, customAction>>
  /\ UNCHANGED <<error, gameStarted, showStorySetup, storyTitle, loadedFromSave, uiVars,
                 regen, loadTimer, nTurns, nResets, nMounts, nextItemId, turnCap, auxVars>>
  /\ storage' = AfterRender(TRUE, storage)

\* fetchStoryContent rejects (bad status, network failure, a stream line that
\* does not parse): the outer catch, then finally
NarrativeFail(t) ==
  /\ turns[t].pc = "narrative"
  /\ error' = NarrativeError
  /\ Finally(t, "failed")
  /\ UNCHANGED <<gameState, gameStarted, showStorySetup, storyTitle, loadedFromSave,
                 uiVars, regen, loadTimer, nTurns, nResets, nMounts, nextItemId, turnCap, auxVars>>
  /\ storage' = AfterRender(FALSE, storage)

\* generateStoryOptions resolves; the inventory request goes out next
OptionsDone(t, answer) ==
  /\ turns[t].pc = "options"
  /\ gameState' = ApplyOptions(gameState, ParseOptions(answer))
  /\ turns' = [turns EXCEPT ![t].pc = "items"]
  /\ UNCHANGED <<isLoading, error, gameStarted, showStorySetup, customAction, storyTitle,
                 streamingText, isStreaming, loadedFromSave, uiVars, regen, loadTimer,
                 nTurns, nResets, nMounts, nextItemId, turnCap, auxVars>>
  /\ storage' = AfterRender(TRUE, storage)

\* generateStoryOptions rejects: the inner catch installs the defaults, the
\* inventory request is never made
OptionsFail(t) ==
  /\ turns[t].pc = "options"
  /\ gameState' = ApplyFallback(gameState)
  /\ Finally(t, "optionsFailed")
  /\ UNCHANGED <<error, gameStarted, showStorySetup, storyTitle, loadedFromSave, uiVars,
                 regen, loadTimer, nTurns, nResets, nMounts, nextItemId, turnCap, auxVars>>
  /\ storage' = AfterRender(TRUE, storage)

\* The items update made without the `newItems.length > 0` test and with the
\* new items put in place of the inventory
ItemsDoneReplacing(t, calls) ==
  /\ turns[t].pc = "items"
  /\ LET newItems == ItemsOfCalls(calls, nextItemId)
     IN /\ gameState' = [ApplyItems(gameState, newItems) EXCEPT !.inventory = newItems]
        /\ nextItemId' = nextItemId + Len(newItems)
        /\ Finally(t, "settled")
        /\ UNCHANGED <<error, gameStarted, showStorySetup, storyTitle, loadedFromSave,
                       uiVars, regen, loadTimer, nTurns, nResets, nMounts, turnCap, auxVars>>
        /\ storage' = AfterRender(TRUE, storage)

\* checkForItemsToAdd resolves with the items of an ok response
ItemsDone(t, calls) ==
  /\ turns[t].pc = "items"
  /\ LET newItems == ItemsOfCalls(calls, nextItemId)
     IN /\ gameState' = IF Len(newItems) > 0 THEN ApplyItems(gameState, newItems)
                        ELSE gameState
        /\ nextItemId' = nextItemId + Len(newItems)
        /\ Finally(t, "settled")
        /\ UNCHANGED <<error, gameStarted, showStorySetup, storyTitle, loadedFromSave,
                       uiVars, regen, loadTimer, nTurns, nResets, nMounts, turnCap, auxVars>>
        /\ storage' = AfterRender(Len(newItems) > 0, storage)

\* The failure of the inventory check taken for one of the options call: the
\* catch of the follow-up block installs the defaults
ItemsFailAsOptionsFail(t) ==
  /\ turns[t].pc = "items"
  /\ gameState' = ApplyFallback(gameState)
  /\ Finally(t, "settled")
  /\ UNCHANGED <<error, gameStarted, showStorySetup, storyTitle, loadedFromSave, uiVars,
                 regen, loadTimer, nTurns, nResets, nMounts, nextItemId, turnCap, auxVars>>
  /\ storage' = AfterRender(TRUE, storage)

\* checkForItemsToAdd resolves with [] after a bad status or a failed request
ItemsFail(t) ==
  /\ turns[t].pc = "items"
  /\ Finally(t, "settled")
  /\ UNCHANGED <<gameState, error, gameStarted, showStorySetup, storyTitle,
                 loadedFromSave, uiVars, regen, loadTimer, nTurns, nResets, nMounts,
                 nextItemId, turnCap, auxVars>>
  /\ storage' = AfterRender(FALSE, storage)

\* ------------------------------------------------ page load: the mount effect
\* loadGameState: null without an entry, null and the entry removed when it is
\* older than seven days (expired, an input), the entry otherwise
LoadGameState(expired) == IF storage = <<>> \/ expired THEN <<>> ELSE storage

StorageAfterLoad(expired) == IF expired THEN <<>> ELSE storage

\* The page is loaded again: every piece of component state is constructed
\* anew, continuations of the old page are gone, and the mount effect runs.
Mount(expired) ==
  /\ nMounts < MaxMounts
  /\ nMounts' = nMounts + 1
  /\ turns' = [t \in Slots |-> IdleTurn]
  /\ customAction' = ""
  /\ showStorySetup' = FALSE
  /\ streamingText' = <<>>
  /\ isStreaming' = FALSE
  /\ showInventory' = FALSE
  /\ selectedItemForCustomAction' = <<>>
  /\ itemCustomAction' = ""
  /\ error' = ""
  /\ LET saved == LoadGameState(expired) IN
       IF saved = <<>>
       THEN /\ gameState' = EmptyGameState
            /\ gameStarted' = FALSE
            /\ storyTitle' = ""
            /\ loadedFromSave' = FALSE
            /\ loadTimer' = FALSE
            /\ regen' = FALSE
            /\ isLoading' = FALSE
       ELSE /\ gameState' = saved[1].gameState
            /\ gameStarted' = saved[1].gameStarted
            /\ storyTitle' = saved[1].storyTitle
            /\ loadedFromSave' = TRUE
            /\ loadTimer' = TRUE
            /\ regen' = /\ Len(saved[1].gameState.storyBeats) > 0
                        /\ Len(saved[1].gameState.currentOptions) = 0
                        /\ ~saved[1].gameState.gameEnded
            /\ isLoading' = regen'
  /\ storage' = StorageAfterLoad(expired)
  /\ UNCHANGED <<nTurns, nResets, nextItemId, turnCap, auxVars>>

\* generateNewOptions resolves
GenerateNewOptionsDone(answer) ==
  /\ regen
  /\ regen' = FALSE
  /\ gameState' = IF Len(ParseOptions(answer)) > 0
                  THEN ApplyOptions(gameState, ParseOptions(answer))
                  ELSE gameState
  /\ isLoading' = FALSE
  /\ UNCHANGED <<error, gameStarted, showStorySetup, customAction, storyTitle,
                 streamingText, isStreaming, loadedFromSave, uiVars, turns, loadTimer,
                 nTurns, nResets, nMounts, nextItemId, turnCap, auxVars>>
  /\ storage' = AfterRender(Len(ParseOptions(answer)) > 0, storage)

\* generateNewOptions: its catch shows the failure of the options call
GenerateNewOptionsFail ==
  /\ regen
  /\ regen' = FALSE
  /\ error' = OptionsError
  /\ isLoading' = FALSE
  /\ UNCHANGED <<gameState, gameStarted, showStorySetup, customAction, storyTitle,
                 streamingText, isStreaming, loadedFromSave, uiVars, storage, turns,
                 loadTimer, nTurns, nResets, nMounts, nextItemId, turnCap, auxVars>>

\* The 3 s timer of the mount effect: setLoadedFromSave(false)
HideLoadedIndicator ==
  /\ loadTimer
  /\ loadTimer' = FALSE
  /\ loadedFromSave' = FALSE
  /\ UNCHANGED <<gameState, isLoading, error, gameStarted, showStorySetup, customAction,
                 storyTitle, streamingText, isStreaming, uiVars, turns, regen, nTurns,
                 nResets, nMounts, nextItemId, turnCap, auxVars>>
  /\ storage' = AfterRender(FALSE, storage)

\* ------------------------------------------------------------------- Next
Next ==
  \/ HandleStartGame /\ UNCHANGED chatVars
  \/ \E title \in Titles : HandleStartStoryWithPrompt(title) /\ UNCHANGED chatVars
  \/ HandleChoiceSelection /\ UNCHANGED chatVars
  \/ \E text \in TypedTexts : TypeCustomAction(text) /\ UNCHANGED chatVars
  \/ HandleCustomAction /\ UNCHANGED chatVars
  \/ OpenInventory /\ UNCHANGED chatVars
  \/ CloseInventory /\ UNCHANGED chatVars
  \/ \E item \in ModalItems : HandleItemClick(item) /\ UNCHANGED chatVars
  \/ \E item \in ModalItems : HandleItemUseFromModal(item) /\ UNCHANGED chatVars
  \/ \E item \in ModalItems : SelectItemForCustomAction(item) /\ UNCHANGED chatVars
  \/ \E text \in TypedTexts : TypeItemCustomAction(text) /\ UNCHANGED chatVars
  \/ HandleItemCustomAction /\ UNCHANGED chatVars
  \/ CancelItemCustomAction /\ UNCHANGED chatVars
  \/ ResetGame /\ UNCHANGED chatVars
  \/ \E t \in Slots, chunk \in Chunks : StreamChunk(t, chunk) /\ UNCHANGED chatVars
  \/ \E t \in Slots : NarrativeDone(t) /\ UNCHANGED chatVars
  \/ \E t \in Slots : NarrativeFail(t) /\ UNCHANGED chatVars
  \/ \E t \in Slots, answer \in OptionAnswers : OptionsDone(t, answer) /\ UNCHANGED chatVars
  \/ \E t \in Slots : OptionsFail(t) /\ UNCHANGED chatVars
  \/ \E t \in Slots, calls \in ItemAnswers : ItemsDone(t, calls) /\ UNCHANGED chatVars
  \/ \E t \in Slots : ItemsFail(t) /\ UNCHANGED chatVars
  \/ \E expired \in BOOLEAN : Mount(expired) /\ UNCHANGED chatVars
  \/ \E answer \in OptionAnswers : GenerateNewOptionsDone(answer) /\ UNCHANGED chatVars
  \/ GenerateNewOptionsFail /\ UNCHANGED chatVars
  \/ HideLoadedIndicator /\ UNCHANGED chatVars

Spec == Init /\ [][Next]_vars

\* The network call turn t waits for settles: it resolves or it rejects
Settles(t) ==
  /\ \/ NarrativeDone(t)
     \/ NarrativeFail(t)
     \/ \E answer \in OptionAnswers : OptionsDone(t, answer)
     \/ OptionsFail(t)
     \/ \E calls \in ItemAnswers : ItemsDone(t, calls)
     \/ ItemsFail(t)
  /\ UNCHANGED chatVars

\* The options request of a reloaded page settles
RegenSettles ==
  /\ \/ \E answer \in OptionAnswers : GenerateNewOptionsDone(answer)
     \/ GenerateNewOptionsFail
  /\ UNCHANGED chatVars

\* The program when no network call stays pending for ever
SpecSettling ==
  /\ Init
  /\ [][Next]_vars
  /\ \A t \in Slots : WF_vars(Settles(t))
  /\ WF_vars(RegenSettles)

\* One adventure played on one page for more turns: no reset, no reload, and
\* pointer input only, so the controls under the open inventory overlay are out
\* of reach.
InitLong ==
  /\ gameState = EmptyGameState
  /\ isLoading = FALSE
  /\ error = ""
  /\ gameStarted = FALSE
  /\ showStorySetup = FALSE
  /\ customAction = ""
  /\ storyTitle = ""
  /\ streamingText = <<>>
  /\ isStreaming = FALSE
  /\ loadedFromSave = FALSE
  /\ showInventory = FALSE
  /\ selectedItemForCustomAction = <<>>
  /\ itemCustomAction = ""
  /\ storage = <<>>
  /\ turns = [t \in Slots |-> IdleTurn]
  /\ regen = FALSE
  /\ loadTimer = FALSE
  /\ nTurns = 0
  /\ nResets = 0
  /\ nMounts = 0
  /\ nextItemId = 1
  /\ turnCap = MaxTurnsLong
  /\ StoreIdle
  /\ ChatIdle
  /\ PureIdle

NextLong ==
  \/ HandleStartGame /\ UNCHANGED chatVars
  \/ \E title \in Titles : HandleStartStoryWithPrompt(title) /\ UNCHANGED chatVars
  \/ ~ModalShown /\ HandleChoiceSelection /\ UNCHANGED chatVars
  \/ \E text \in TypedTexts : ~ModalShown /\ TypeCustomAction(text) /\ UNCHANGED chatVars
  \/ ~ModalShown /\ HandleCustomAction /\ UNCHANGED chatVars
  \/ OpenInventory /\ UNCHANGED chatVars
  \/ CloseInventory /\ UNCHANGED chatVars
  \/ \E item \in ModalItems : HandleItemClick(item) /\ UNCHANGED chatVars
  \/ \E item \in ModalItems : HandleItemUseFromModal(item) /\ UNCHANGED chatVars
  \/ \E item \in ModalItems : SelectItemForCustomAction(item) /\ UNCHANGED chatVars
  \/ \E text \in TypedTexts : TypeItemCustomAction(text) /\ UNCHANGED chatVars
  \/ HandleItemCustomAction /\ UNCHANGED chatVars
  \/ CancelItemCustomAction /\ UNCHANGED chatVars
  \/ \E t \in Slots, chunk \in Chunks : StreamChunk(t, chunk) /\ UNCHANGED chatVars
  \/ \E t \in Slots : NarrativeDone(t) /\ UNCHANGED chatVars
  \/ \E t \in Slots : NarrativeFail(t) /\ UNCHANGED chatVars
  \/ \E t \in Slots, answer \in OptionAnswers : OptionsDone(t, answer) /\ UNCHANGED chatVars
  \/ \E t \in Slots : OptionsFail(t) /\ UNCHANGED chatVars
  \/ \E t \in Slots, calls \in ItemAnswers : ItemsDone(t, calls) /\ UNCHANGED chatVars
  \/ \E t \in Slots : ItemsFail(t) /\ UNCHANGED chatVars

SpecLong == InitLong /\ [][NextLong]_vars

\* ======================================================================
\* The session store on its own: saveGameState, loadGameState and
\* clearSavedGame called in any order on any in-memory game, at any time of
\* the clock, with a storage that may refuse a write.
\* ======================================================================
\* 7 * 24 * 60 * 60 * 1000, the freshness window of loadGameState in ms
SevenDays == 7 * 24 * 60 * 60 * 1000

\* The readings of Date.now() the model draws from: around 0 and around the
\* window's length
Instants == {base + k : base \in {0, SevenDays}, k \in 0..MaxTicks}

\* A text in the store: wellFormed tells whether JSON.parse accepts it, props
\* are the properties of the object it denotes, in the order written.
JsonText(props) == [wellFormed |-> TRUE, props |-> props]

\* A text that is not JSON (written by something else under the same key)
Garbage == [wellFormed |-> FALSE, props |-> <<>>]

\* JSON.stringify(saveData)
JsonStringify(saveData) ==
  JsonText(<< <<"gameState", saveData.gameState>>,
              <<"gameStarted", saveData.gameStarted>>,
              <<"storyTitle", saveData.storyTitle>>,
              <<"timestamp", saveData.timestamp>> >>)

\* The value of property key of a parsed text
Prop(text, key) ==
  LET i == CHOOSE i \in 1..Len(text.props) : text.props[i][1] = key
  IN text.props[i][2]

\* JSON.parse(saved) as SavedGameState, for a well-formed text
JsonParse(text) ==
  [gameState |-> Prop(text, "gameState"),
   gameStarted |-> Prop(text, "gameStarted"),
   storyTitle |-> Prop(text, "storyTitle"),
   timestamp |-> Prop(text, "timestamp")]

\* saveGameState without its try/catch: a refused write reaches the caller
SaveGameStateUncaught(slot, gs, started, title, t, writeOk) ==
  IF writeOk
  THEN [slot |-> <<JsonStringify([gameState |-> gs, gameStarted |-> started,
                                  storyTitle |-> title, timestamp |-> t])>>,
        thrown |-> FALSE]
  ELSE [slot |-> slot, thrown |-> TRUE]

\* saveGameState at time t: the slot it leaves and whether it threw to its
\* caller; writeOk tells whether localStorage.setItem accepts the write
SaveGameState(slot, gs, started, title, t, writeOk) ==
  IF writeOk
  THEN [slot |-> <<JsonStringify([gameState |-> gs, gameStarted |-> started,
                                  storyTitle |-> title, timestamp |-> t])>>,
        thrown |-> FALSE]
  ELSE [slot |-> slot, thrown |-> FALSE]

\* loadGameState that takes an entry exactly as old as the window for expired
LoadBranchExpiringAtWindow(slot, t) ==
  IF slot = <<>> THEN "absent"
  ELSE IF ~slot[1].wellFormed THEN "corrupt"
  ELSE IF JsonParse(slot[1]).timestamp <= t - SevenDays THEN "expired"
  ELSE "fresh"

\* The branch loadGameState takes at time t
LoadBranch(slot, t) ==
  IF slot = <<>> THEN "absent"
  ELSE IF ~slot[1].wellFormed THEN "corrupt"
  ELSE IF JsonParse(slot[1]).timestamp < t - SevenDays THEN "expired"
  ELSE "fresh"

\* What loadGameState returns: <<>> for null
LoadResult(slot, t) ==
  IF LoadBranch(slot, t) = "fresh" THEN <<JsonParse(slot[1])>> ELSE <<>>

\* loadGameState without its removeItem calls
SlotAfterLoadKeeping(slot, t) == slot

\* The slot loadGameState leaves
SlotAfterLoad(slot, t) ==
  IF LoadBranch(slot, t) \in {"expired", "corrupt"} THEN <<>> ELSE slot

\* The in-memory games the store is exercised with
StoreGames ==
  LET g1 == CommitBeat(EmptyGameState, NewBeat(1, <<"text">>), ExtractEnding(<<"text">>))
      g2 == ApplyItems(ApplyOptions(g1, FallbackOptions),
                       ItemsOfCalls(<<AddItemCall("Potion", "heals", "consumable")>>, 1))
      g3 == CommitBeat(MarkSelected(g2, "go"), NewBeat(2, <<"text">>),
                       ExtractEnding(<<"text", PositiveMarker, "text">>))
  IN {EmptyGameState, g2, g3}

gameVars == <<pureVars, isLoading, error, showStorySetup, customAction, streamingText,
              isStreaming, loadedFromSave, uiVars, storage, turns, regen, loadTimer,
              nTurns, nResets, nMounts, nextItemId, turnCap, chatVars>>

InitStore ==
  /\ gameState \in StoreGames
  /\ gameStarted \in BOOLEAN
  /\ storyTitle \in Titles
  /\ isLoading = FALSE
  /\ error = ""
  /\ showStorySetup = FALSE
  /\ customAction = ""
  /\ streamingText = <<>>
  /\ isStreaming = FALSE
  /\ loadedFromSave = FALSE
  /\ showInventory = FALSE
  /\ selectedItemForCustomAction = <<>>
  /\ itemCustomAction = ""
  /\ storage = <<>>
  /\ turns = [t \in Slots |-> IdleTurn]
  /\ regen = FALSE
  /\ loadTimer = FALSE
  /\ nTurns = 0
  /\ nResets = 0
  /\ nMounts = 0
  /\ nextItemId = 1
  /\ turnCap = 0
  /\ StoreIdle
  /\ ChatIdle
  /\ PureIdle

\* The game in memory becomes another one (the player played on)
StorePlay(gs, started) ==
  /\ ~crashed
  /\ <<gs, started>> # <<gameState, gameStarted>>
  /\ gameState' = gs
  /\ gameStarted' = started
  /\ lastCall' = [op |-> "play", outcome |-> "none", value |-> <<>>, after |-> Tag(lastCall)]
  /\ UNCHANGED <<storyTitle, savedText, now, crashed, gameVars>>

\* The save effect calls saveGameState(gameState, gameStarted, storyTitle);
\* an exception that leaves the effect takes the component tree down
StoreSave(t, writeOk) ==
  /\ ~crashed
  /\ t >= now
  /\ LET out == SaveGameState(savedText, gameState, gameStarted, storyTitle, t, writeOk)
     IN /\ savedText' = out.slot
        /\ crashed' = out.thrown
  /\ now' = t
  /\ lastCall' = [op |-> "save", outcome |-> IF writeOk THEN "written" ELSE "refused",
                  value |-> <<>>, after |-> Tag(lastCall)]
  /\ UNCHANGED <<gameState, gameStarted, storyTitle, gameVars>>

\* loadGameState()
StoreLoad(t) ==
  /\ ~crashed
  /\ t >= now
  /\ savedText' = SlotAfterLoad(savedText, t)
  /\ now' = t
  /\ lastCall' = [op |-> "load", outcome |-> LoadBranch(savedText, t),
                  value |-> LoadResult(savedText, t), after |-> Tag(lastCall)]
  /\ UNCHANGED <<gameState, gameStarted, storyTitle, crashed, gameVars>>

\* clearSavedGame()
StoreClear ==
  /\ ~crashed
  /\ savedText # <<>>
  /\ savedText' = <<>>
  /\ lastCall' = [op |-> "clear", outcome |-> "none", value |-> <<>>, after |-> Tag(lastCall)]
  /\ UNCHANGED <<gameState, gameStarted, storyTitle, now, crashed, gameVars>>

\* Something else leaves a text that is not JSON under the key
StoreForeignWrite ==
  /\ ~crashed
  /\ savedText # <<Garbage>>
  /\ savedText' = <<Garbage>>
  /\ lastCall' = [op |-> "foreign", outcome |-> "none", value |-> <<>>, after |-> Tag(lastCall)]
  /\ UNCHANGED <<gameState, gameStarted, storyTitle, now, crashed, gameVars>>

NextStore ==
  \/ \E gs \in StoreGames, started \in BOOLEAN : StorePlay(gs, started)
  \/ \E t \in Instants, writeOk \in BOOLEAN : StoreSave(t, writeOk)
  \/ \E t \in Instants : StoreLoad(t)
  \/ StoreClear
  \/ StoreForeignWrite

SpecStore == InitStore /\ [][NextStore]_vars

\* ======================================================================
\* The chat calls on their own: every call site answered with every response
\* ======================================================================
storeAndGameVars == <<gameState, gameStarted, storyTitle, storeVars, pureVars, isLoading, error,
                      showStorySetup, customAction, streamingText, isStreaming,
                      loadedFromSave, uiVars, storage, turns, regen, loadTimer, nTurns,
                      nResets, nMounts, nextItemId, turnCap>>

InitChat ==
  /\ gameState = EmptyGameState
  /\ gameStarted = FALSE
  /\ storyTitle = ""
  /\ isLoading = FALSE
  /\ error = ""
  /\ showStorySetup = FALSE
  /\ customAction = ""
  /\ streamingText = <<>>
  /\ isStreaming = FALSE
  /\ loadedFromSave = FALSE
  /\ showInventory = FALSE
  /\ selectedItemForCustomAction = <<>>
  /\ itemCustomAction = ""
  /\ storage = <<>>
  /\ turns = [t \in Slots |-> IdleTurn]
  /\ regen = FALSE
  /\ loadTimer = FALSE
  /\ nTurns = 0
  /\ nResets = 0
  /\ nMounts = 0
  /\ nextItemId = 1
  /\ turnCap = 0
  /\ StoreIdle
  /\ ChatIdle
  /\ PureIdle

\* One call of a site gets its response
ChatCall(site, label, resp) ==
  /\ href = ""
  /\ LET out == ChatOutcome(site, label, resp)
     IN /\ pendingAction' = MarkerAfter(pendingAction, out.effects)
        /\ href' = HrefAfter(href, out.effects)
        /\ lastChat' = [site |-> site, label |-> label, resp |-> resp,
                        effects |-> out.effects, result |-> out.result,
                        markerBefore |-> pendingAction]
  /\ UNCHANGED <<token, authTimer, setup, nSettings, storeAndGameVars>>

\* The browser has left for the location and the page is loaded again
ChatPageLoad ==
  /\ href # ""
  /\ href' = ""
  /\ UNCHANGED <<pendingAction, lastChat, token, authTimer, setup, nSettings,
                 storeAndGameVars>>

NextChat ==
  \/ \E site \in Sites : \E label \in SiteLabels(site), resp \in Responses :
        ChatCall(site, label, resp)
  \/ ChatPageLoad

SpecChat == InitChat /\ [][NextChat]_vars

\* ======================================================================
\* The game with the authentication round trip: the settings requests of
\* StorySetup, the calls that can be answered with a redirect, the return to
\* the page
\* ======================================================================
RedirectingMessage == "Redirecting to Peerwave auth"
SettingsFailedMessage == "Failed to generate generateSettings"
AuthLocation == "https://auth"

\* s without its i-th element
Without(s, i) == SubSeq(s, 1, i - 1) \o SubSeq(s, i + 1, Len(s))

\* StorySetup as its first render and the first run of its effect leave it:
\* getSettings has put one request on the wire.  A request and a retry timer
\* are written as the `error` their closure holds.
SetupMounted ==
  [mounted |-> TRUE, error |-> "", isLoadingOptions |-> TRUE, hasOptions |-> FALSE,
   requests |-> <<"">>, timers |-> <<>>]

\* The page stays: nothing has assigned window.location.href
Staying == href = ""

\* "Begin Your Adventure": StorySetup is rendered and asks for the settings
AuthHandleStartGame ==
  /\ Staying
  /\ nSettings < MaxSettings
  /\ HandleStartGame
  /\ setup' = [SetupMounted EXCEPT !.requests = setup.requests \o <<"">>,
                                  !.timers = setup.timers]
  /\ nSettings' = nSettings + 1
  /\ UNCHANGED <<pendingAction, href, token, authTimer, lastChat>>

\* The effect of StorySetup runs again when `error` changed: getSettings()
SetupAfterRender(next, was) ==
  IF next.mounted /\ next.error # was.error
  THEN [next EXCEPT !.isLoadingOptions = TRUE,
                    !.requests = next.requests \o <<next.error>>]
  ELSE next

\* A settings request resolves: fetchAndStream clears the marker, then()
\* installs the parsed settings (some: the answer parsed to at least one)
SettingsDone(i, some) ==
  /\ Staying
  /\ i \in 1..Len(setup.requests)
  /\ LET rest == [setup EXCEPT !.requests = Without(setup.requests, i)]
         next == IF setup.mounted
                 THEN [rest EXCEPT !.hasOptions = some, !.error = "",
                                   !.isLoadingOptions = FALSE]
                 ELSE rest
     IN /\ setup' = SetupAfterRender(next, setup)
        /\ nSettings' = nSettings + Len(setup'.requests) - Len(rest.requests)
  /\ nSettings' <= MaxSettings
  /\ pendingAction' = MarkerAfter(pendingAction,
                          FetchAndStream("generateSettings",
                                         [status |-> 200, location |-> "", body |-> ""]).effects)
  /\ UNCHANGED <<href, token, authTimer, lastChat, storeAndGameVars>>

\* A settings request rejects with the Error of fetchAndStream for resp: the
\* catch shows its message, schedules the retry unless the `error` of its
\* closure is the redirecting one, and the render runs the effect again
SettingsFail(i, resp) ==
  /\ Staying
  /\ i \in 1..Len(setup.requests)
  /\ ~IsOk(resp)
  /\ LET out == FetchAndStream("generateSettings", resp)
         message == IF out.result.error = Redirecting THEN RedirectingMessage
                    ELSE SettingsFailedMessage
         rest == [setup EXCEPT !.requests = Without(setup.requests, i),
                               !.timers = IF setup.requests[i] = RedirectingMessage
                                          THEN setup.timers
                                          ELSE setup.timers \o <<setup.requests[i]>>]
         next == IF setup.mounted THEN [rest EXCEPT !.error = message] ELSE rest
     IN /\ setup' = SetupAfterRender(next, setup)
        /\ nSettings' = nSettings + Len(setup'.requests) - Len(rest.requests)
        /\ pendingAction' = MarkerAfter(pendingAction, out.effects)
        /\ href' = HrefAfter(href, out.effects)
  /\ nSettings' <= MaxSettings
  /\ UNCHANGED <<token, authTimer, lastChat, storeAndGameVars>>

\* The retry timer of a catch fires: getSettings() of that closure
SettingsRetry(j) ==
  /\ Staying
  /\ j \in 1..Len(setup.timers)
  /\ nSettings < MaxSettings
  /\ setup' = [setup EXCEPT !.timers = Without(setup.timers, j),
                            !.requests = setup.requests \o <<setup.timers[j]>>,
                            !.isLoadingOptions = setup.mounted]
  /\ nSettings' = nSettings + 1
  /\ UNCHANGED <<pendingAction, href, token, authTimer, lastChat, storeAndGameVars>>

\* A setting is clicked: the list is on screen only past the error and the
\* loading branches of StorySetup
AuthHandleStartStoryWithPrompt(title) ==
  /\ Staying
  /\ setup.mounted
  /\ setup.error = ""
  /\ ~setup.isLoadingOptions
  /\ setup.hasOptions
  /\ HandleStartStoryWithPrompt(title)
  /\ setup' = [SetupUnmounted EXCEPT !.requests = setup.requests,
                                    !.timers = setup.timers]
  /\ UNCHANGED <<pendingAction, href, token, authTimer, nSettings, lastChat>>

\* fetchStoryContent is answered 402 with a Location before any chunk: the
\* handshake, then the outer catch of generateNextStoryStep and its finally
NarrativeRedirect(t) ==
  /\ Staying
  /\ turns[t].pc = "narrative"
  /\ turns[t].content = <<>>
  /\ LET out == FetchStoryContent([status |-> PaymentRequired,
                                   location |-> AuthLocation, body |-> ""])
     IN /\ pendingAction' = MarkerAfter(pendingAction, out.effects)
        /\ href' = HrefAfter(href, out.effects)
  /\ error' = RedirectingMessage
  /\ Finally(t, "failed")
  /\ UNCHANGED <<gameState, gameStarted, showStorySetup, storyTitle, loadedFromSave,
                 uiVars, regen, loadTimer, nTurns, nResets, nMounts, nextItemId, turnCap,
                 auxVars>>
  /\ storage' = AfterRender(FALSE, storage)
  /\ UNCHANGED <<token, authTimer, setup, nSettings, lastChat>>

\* fetchStoryContent got an ok status: the marker is removed before the body
\* is read
MarkerRemoved ==
  /\ pendingAction' = MarkerAfter(pendingAction,
                          FetchStoryContent([status |-> 200, location |-> "",
                                             body |-> ""]).effects)
  /\ UNCHANGED <<href, token, authTimer, setup, nSettings, lastChat>>

\* The page is loaded (again, or on the way back from the location): the mount
\* effect reads the token and the marker and starts the 100 ms timer
AuthMount(expired, tok) ==
  /\ Mount(expired)
  /\ href' = ""
  /\ token' = tok
  /\ authTimer' = IF pendingAction # "" /\ tok THEN <<pendingAction>> ELSE <<>>
  /\ setup' = SetupUnmounted
  /\ UNCHANGED <<pendingAction, nSettings, lastChat>>

\* The 100 ms timer of the mount effect
AuthTimerFires ==
  /\ Staying
  /\ authTimer # <<>>
  /\ authTimer[1] \in {"generate_options", "start_game"} /\ ~showStorySetup
       => nSettings < MaxSettings
  /\ authTimer' = <<>>
  /\ pendingAction' = ""
  /\ IF authTimer[1] \in {"generate_options", "start_game"}
     THEN /\ showStorySetup' = TRUE
          /\ IF showStorySetup
             THEN UNCHANGED <<setup, nSettings>>
             ELSE /\ setup' = [SetupMounted EXCEPT
                                 !.requests = setup.requests \o <<"">>,
                                 !.timers = setup.timers]
                  /\ nSettings' = nSettings + 1
     ELSE UNCHANGED <<showStorySetup, setup, nSettings>>
  /\ UNCHANGED <<gameState, isLoading, error, gameStarted, customAction, storyTitle,
                 streamingText, isStreaming, loadedFromSave, uiVars, turns, regen,
                 loadTimer, nTurns, nResets, nMounts, nextItemId, turnCap, auxVars>>
  /\ storage' = AfterRender(FALSE, storage)
  /\ UNCHANGED <<href, token, lastChat>>

NextAuth ==
  \/ AuthHandleStartGame
  \/ \E i \in 1..MaxSettings, some \in BOOLEAN : SettingsDone(i, some)
  \/ \E i \in 1..MaxSettings, resp \in Responses : SettingsFail(i, resp)
  \/ \E j \in 1..MaxSettings : SettingsRetry(j)
  \/ \E title \in Titles : AuthHandleStartStoryWithPrompt(title)
  \/ Staying /\ HandleChoiceSelection /\ UNCHANGED chatVars
  \/ Staying /\ OpenInventory /\ UNCHANGED chatVars
  \/ Staying /\ CloseInventory /\ UNCHANGED chatVars
  \/ \E item \in ModalItems : Staying /\ HandleItemUseFromModal(item) /\ UNCHANGED chatVars
  \/ \E t \in Slots, chunk \in Chunks : Staying /\ StreamChunk(t, chunk) /\ MarkerRemoved
  \/ \E t \in Slots : Staying /\ NarrativeDone(t) /\ MarkerRemoved
  \/ \E t \in Slots : Staying /\ NarrativeFail(t) /\ UNCHANGED chatVars
  \/ \E t \in Slots : NarrativeRedirect(t)
  \/ \E t \in Slots, answer \in OptionAnswers :
        Staying /\ OptionsDone(t, answer) /\ UNCHANGED chatVars
  \/ \E t \in Slots : Staying /\ OptionsFail(t) /\ UNCHANGED chatVars
  \/ \E t \in Slots, calls \in ItemAnswers :
        Staying /\ ItemsDone(t, calls) /\ UNCHANGED chatVars
  \/ \E t \in Slots : Staying /\ ItemsFail(t) /\ UNCHANGED chatVars
  \/ \E expired, tok \in BOOLEAN : AuthMount(expired, tok)
  \/ \E answer \in OptionAnswers :
        Staying /\ GenerateNewOptionsDone(answer) /\ UNCHANGED chatVars
  \/ Staying /\ GenerateNewOptionsFail /\ UNCHANGED chatVars
  \/ Staying /\ HideLoadedIndicator /\ UNCHANGED chatVars
  \/ AuthTimerFires

SpecAuth == Init /\ [][NextAuth]_vars

\* ======================================================================
\* The reader of a response body on its own: every body, cut every way
\* ======================================================================
Bodies == UNION {[1..n -> Lines] : n \in 0..MaxLines}

\* A call reads the body `lines`, delivered in the reads that cuts makes of it
StreamCall(site, lines, cuts) ==
  /\ lastStream = NoStream
  /\ lastStream' = [site |-> site, lines |-> lines, cuts |-> cuts,
                    out |-> StreamOutcome(site, ReadsOf(lines, cuts))]
  /\ UNCHANGED <<gameState, gameStarted, storyTitle, storeVars, isLoading, error,
                 showStorySetup, customAction, streamingText, isStreaming,
                 loadedFromSave, uiVars, storage, turns, regen, loadTimer, nTurns,
                 nResets, nMounts, nextItemId, turnCap, chatVars, lastDelta, lastDecision,
                 chapterVars, lastParse>>

\* The caller has taken the outcome
StreamOver ==
  /\ lastStream # NoStream
  /\ lastStream' = NoStream
  /\ UNCHANGED <<gameState, gameStarted, storyTitle, storeVars, isLoading, error,
                 showStorySetup, customAction, streamingText, isStreaming,
                 loadedFromSave, uiVars, storage, turns, regen, loadTimer, nTurns,
                 nResets, nMounts, nextItemId, turnCap, chatVars, lastDelta, lastDecision,
                 chapterVars, lastParse>>

NextStream ==
  \/ lastStream = NoStream /\ \E site \in StreamSites, lines \in Bodies :
       \E cuts \in [1..Len(lines) -> Cuts] : StreamCall(site, lines, cuts)
  \/ StreamOver

SpecStream == InitChat /\ [][NextStream]_vars

\* ======================================================================
\* The inventory delta on its own: every list of tool calls, on every inventory
\* ======================================================================
\* The items a play can have put in the inventory: two of a name, one other
HeldItems ==
  { NewItem(AddItemCall("Potion", "heals", "consumable"), 1),
    NewItem(AddItemCall("Coin", "shiny", "misc"), 2),
    NewItem(AddItemCall("Potion", "heals", "consumable"), 3) }

Inventories ==
  {inv \in UNION {[1..n -> HeldItems] : n \in 0..MaxHeld} :
     \A i, j \in 1..Len(inv) : i # j => inv[i].id # inv[j].id}

CallLists == UNION {[1..n -> ToolCalls] : n \in 0..MaxCalls}

\* The ids of new items go on from those held
FirstFreeId == Cardinality(HeldItems) + 1

\* The inventory check of a turn is answered with calls while the inventory is
\* inv: the delta is resolved and merged
DeltaCall(inv, calls) ==
  /\ lastDelta = NoDelta
  /\ LET delta == ResolveInventoryDelta(calls, FirstFreeId)
     IN lastDelta' = [op |-> "resolve", inventory |-> inv, calls |-> calls,
                      delta |-> delta, after |-> ApplyDelta(inv, delta)]
  /\ UNCHANGED <<gameState, gameStarted, storyTitle, storeVars, isLoading, error,
                 showStorySetup, customAction, streamingText, isStreaming,
                 loadedFromSave, uiVars, storage, turns, regen, loadTimer, nTurns,
                 nResets, nMounts, nextItemId, turnCap, chatVars, lastStream, lastDecision,
                 chapterVars, lastParse>>

\* The next turn
DeltaOver ==
  /\ lastDelta # NoDelta
  /\ lastDelta' = NoDelta
  /\ UNCHANGED <<gameState, gameStarted, storyTitle, storeVars, isLoading, error,
                 showStorySetup, customAction, streamingText, isStreaming,
                 loadedFromSave, uiVars, storage, turns, regen, loadTimer, nTurns,
                 nResets, nMounts, nextItemId, turnCap, chatVars, lastStream, lastDecision,
                 chapterVars, lastParse>>

NextItems ==
  \/ lastDelta = NoDelta /\ \E inv \in Inventories, calls \in CallLists : DeltaCall(inv, calls)
  \/ DeltaOver

SpecItems == InitChat /\ [][NextItems]_vars

\* ======================================================================
\* The chapter-end decision on its own: every answer
\* ======================================================================
Answers == UNION {[1..n -> Characters] : n \in 0..MaxAnswer}

DecisionResponses == {Failed(how) : how \in FailureKinds} \cup {Answered(a) : a \in Answers}

otherThanDecision ==
  <<gameState, gameStarted, storyTitle, storeVars, isLoading, error, showStorySetup,
    customAction, streamingText, isStreaming, loadedFromSave, uiVars, storage, turns,
    regen, loadTimer, nTurns, nResets, nMounts, nextItemId, turnCap, chatVars,
    lastStream, lastDelta, lastParse>>

\* checkForChapterEnd is called and its request ends with resp
DecisionCall(resp) ==
  /\ lastDecision = NoDecision
  /\ lastDecision' = [op |-> "decide", resp |-> resp, decision |-> ChapterDecision(resp)]
  /\ UNCHANGED <<otherThanDecision, chapterVars>>

DecisionOver ==
  /\ lastDecision # NoDecision
  /\ lastDecision' = NoDecision
  /\ UNCHANGED <<otherThanDecision, chapterVars>>

NextDecision ==
  \/ lastDecision = NoDecision /\ \E resp \in DecisionResponses : DecisionCall(resp)
  \/ DecisionOver

SpecDecision == InitChat /\ [][NextDecision]_vars

\* ======================================================================
\* Turns, chapter-end checks, folds and resets
\* ======================================================================
Beat(id) == [id |-> id]

\* What the chapter-end request is answered with here
ChapterAnswers ==
  {Failed("status"), Failed("network"), Answered(<<"N">>), Answered(<<"Y", "E", "S">>),
   Answered(<<"y", "e", "s", "\n">>), Answered(<<"Y", "E", "S", ".">>)}

\* A turn commits its beat; from the threshold on it asks for the chapter end
ChapterTurn ==
  /\ chapterPc = "idle"
  /\ nBeats < MaxBeats
  /\ nBeats' = nBeats + 1
  /\ chapterGame' = [chapterGame EXCEPT !.storyBeats = @ \o <<Beat(nBeats + 1)>>]
  /\ IF ChapterCheckDue(chapterGame'.storyBeats)
     THEN /\ chapterPc' = "check"
          /\ nChecks' = nChecks + 1
     ELSE UNCHANGED <<chapterPc, nChecks>>
  /\ UNCHANGED <<otherThanDecision, lastDecision>>

\* checkForChapterEnd settles: on true the summary is asked for
CheckAnswered(resp) ==
  /\ chapterPc = "check"
  /\ lastDecision' = [op |-> "decide", resp |-> resp, decision |-> ChapterDecision(resp)]
  /\ chapterPc' = IF ChapterDecision(resp) THEN "summary" ELSE "idle"
  /\ UNCHANGED <<otherThanDecision, chapterGame, nBeats, nChecks>>

\* generateChapterSummary settles and the chapter is folded
SummaryAnswered(ok, lines) ==
  /\ chapterPc = "summary"
  /\ chapterGame' = FoldChapter(chapterGame, GenerateChapterSummary(ok, lines),
                               Len(chapterGame.chapters) + 1)
  /\ chapterPc' = "idle"
  /\ UNCHANGED <<otherThanDecision, lastDecision, nBeats, nChecks>>

\* A new game: nothing of the old one is left, what was pending is dropped
ChapterReset ==
  /\ chapterGame # NoChapters
  /\ chapterGame' = NoChapters
  /\ chapterPc' = "idle"
  /\ lastDecision' = NoDecision
  /\ UNCHANGED <<otherThanDecision, nBeats, nChecks>>

NextChapters ==
  \/ ChapterTurn
  \/ \E resp \in ChapterAnswers : CheckAnswered(resp)
  \/ \E ok \in BOOLEAN, lines \in SummaryAnswers : SummaryAnswered(ok, lines)
  \/ ChapterReset

SpecChapters == InitChat /\ [][NextChapters]_vars

\* ======================================================================
\* The parsers on their own: every narrative, every options answer
\* ======================================================================
Tokens == {"text", Blank} \cup Markers
Narratives == UNION {[1..n -> Tokens] : n \in 0..MaxTokens}

OptionLines ==
  {NumLine(""), NumLine("Go left"), DashLine("Wait"), BulletLine("Hide"),
   StrayLine("pfel essen"), PlainLine("So:"), PlainLine(""), IndentedNumLine("Run")}
OptionTexts == UNION {[1..n -> OptionLines] : n \in 0..MaxOptionLines}

otherThanParse ==
  <<gameState, gameStarted, storyTitle, storeVars, isLoading, error, showStorySetup,
    customAction, streamingText, isStreaming, loadedFromSave, uiVars, storage, turns,
    regen, loadTimer, nTurns, nResets, nMounts, nextItemId, turnCap, chatVars,
    lastStream, lastDelta, lastDecision, chapterVars>>

\* The narrative call has returned response: the ending is looked for
EndingCall(response) ==
  /\ lastParse' = [NoParse EXCEPT !.op = "ending", !.response = response,
                                  !.ending = ExtractEnding(response)]
  /\ UNCHANGED otherThanParse

\* The options call has returned lines: the options are taken from them
OptionsCall(lines) ==
  /\ lastParse' = [NoParse EXCEPT !.op = "options", !.lines = lines,
                                  !.options = ParseOptions(lines),
                                  !.inUtils = ParseOptionsInUtils(lines),
                                  !.inStory = ParseOptionsInStory(lines)]
  /\ UNCHANGED otherThanParse

ParseOver ==
  /\ lastParse # NoParse
  /\ lastParse' = NoParse
  /\ UNCHANGED otherThanParse

NextParse ==
  \/ lastParse = NoParse /\ \E response \in Narratives : EndingCall(response)
  \/ lastParse = NoParse /\ \E lines \in OptionTexts : OptionsCall(lines)
  \/ ParseOver

SpecParse == InitChat /\ [][NextParse]_vars

\* ======================================================================
\* Properties
\* ======================================================================
\* Steps of a turn, told by what becomes of its slot
NarrativeFailed(t) ==
  turns[t].pc = "narrative" /\ turns'[t].pc = "idle" /\ turns'[t].result = "failed"

OptionsFailed(t) ==
  turns[t].pc = "options" /\ turns'[t].pc = "idle" /\ turns'[t].result = "optionsFailed"

\* A turn that committed a beat without ending comes to rest
TurnSettles(t) ==
  /\ turns[t].pc \in {"options", "items"}
  /\ turns'[t].pc = "idle"
  /\ turns'[t].result \in {"optionsFailed", "settled"}

\* C1: when the narrative call of a turn fails, an error is shown and the
\* GameState is what it was before the action was submitted (turns not crossed
\* by a reset).
C1_FailedTurnRestoresState ==
  [][\A t \in Slots :
       (NarrativeFailed(t) /\ ~turns[t].stale)
         => (error' # "" /\ gameState' = turns[t].snap)]_vars

\* C2: once resetGame has run, no step of a turn that was in flight at the
\* reset changes the GameState or the live streaming text.
C2_ResetDiscardsInFlightResults ==
  [][\A t \in Slots :
       (Active(t) /\ turns[t].stale /\ turns'[t] # turns[t] /\ nMounts' = nMounts)
         => (gameState' = gameState /\ streamingText' = streamingText)]_vars

\* C3: at most one asynchronous flow (a turn with its narrative call or a
\* follow-up call outstanding, or the option regeneration after a load) is in
\* flight at any time.
C3_OneTurnInFlight ==
  Cardinality(InFlight) + (IF regen THEN 1 ELSE 0) <= 1

\* C3 witness: the second narrative call is on the wire, the first turn is over
\* and its beat is committed.
C3_SecondTurnAfterFirstCommitted ==
  /\ nTurns = 2
  /\ \E t \in Slots : turns[t].pc = "narrative" /\ turns[t].id = 2
  /\ Len(gameState.storyBeats) = 1
  /\ gameState.storyBeats[1].id = 1

\* C4: currentOptions is empty whenever gameEnded is true.
C4_EndedHasNoOptions ==
  gameState.gameEnded => gameState.currentOptions = <<>>

\* C4 witness: a game ended by its second beat, the first turn having offered
\* options.
C4_EndedAfterOptions ==
  /\ gameState.gameEnded
  /\ Len(gameState.storyBeats) = 2
  /\ gameState.storyBeats[1].selectedOption # ""

\* C5: once gameEnded is true no narrative call is issued (a reset clears
\* gameEnded first).
C5_EndedIsTerminal ==
  [][gameState.gameEnded => nTurns' = nTurns]_vars

\* C6: a turn that waits for its options always goes on to its inventory check:
\* a failure of option generation does not skip it.
C6_InventoryCheckSurvivesOptionsFailure ==
  [][\A t \in Slots :
       (turns[t].pc = "options" /\ nMounts' = nMounts)
         => turns'[t].pc \in {"options", "items"}]_vars

\* C7: when the options call of a turn throws, the state has the three fallback
\* options and an empty error, and (unless a reset crossed the turn) the turn's
\* beat is the last beat of a game that has not ended.
C7_OptionsFailureInstallsFallback ==
  [][\A t \in Slots :
       OptionsFailed(t)
         => /\ gameState'.currentOptions = FallbackOptions
            /\ error' = ""
            /\ ~turns[t].stale
                 => /\ gameState'.storyBeats # <<>>
                    /\ Last(gameState'.storyBeats).id = turns[t].id
                    /\ ~gameState'.gameEnded]_vars

\* C7 witness: a turn is over because its options call threw; its beat is
\* there with the fallback options and no error.
C7_AfterOptionsFailure ==
  \E t \in Slots :
    /\ turns[t].result = "optionsFailed"
    /\ gameState.storyBeats # <<>>
    /\ gameState.currentOptions = FallbackOptions
    /\ error = ""

\* C8: the player-visible error becomes non-empty only in a step in which a
\* narrative call fails.
C8_OnlyNarrativeFailureSetsError ==
  [][(error' # error /\ error' # "") => \E t \in Slots : NarrativeFailed(t)]_vars

C10_SettledTurnHasOptions ==
  [][\A t \in Slots :
       (TurnSettles(t) /\ ~turns[t].stale)
         => Len(gameState'.currentOptions) > 0]_vars

\* The narrative call of turn t resolves in this step (its beat is committed)
NarrativeSucceeded(t) ==
  /\ turns[t].pc = "narrative"
  /\ \/ turns'[t].pc = "options"
     \/ turns'[t].pc = "idle" /\ turns'[t].result = "ended"

\* b2 is b but for its selectedOption and itemsFound
BeatChangedOnlyInMarks(b, b2) ==
  b2 = [b EXCEPT !.selectedOption = b2.selectedOption, !.itemsFound = b2.itemsFound]

\* C11: in every step other than a reset or a page load, storyBeats grows by
\* exactly one beat at its end when a narrative call succeeds and by none
\* otherwise (a failed call included), and every beat already there keeps its
\* place and all its fields but selectedOption and itemsFound.
C11_BeatsAppendOnly ==
  [][(nResets' = nResets /\ nMounts' = nMounts) =>
       LET old == gameState.storyBeats
           new == gameState'.storyBeats
       IN /\ Len(new) = Len(old) + (IF \E t \in Slots : NarrativeSucceeded(t) THEN 1 ELSE 0)
          /\ \A i \in 1..Len(old) : BeatChangedOnlyInMarks(old[i], new[i])]_vars

\* C11 witness: a second beat was appended behind a first one that got its
\* selectedOption and its itemsFound after it was created.
C11_SecondBeatBehindMarkedFirst ==
  /\ Len(gameState.storyBeats) = 2
  /\ gameState.storyBeats[1].selectedOption # ""
  /\ gameState.storyBeats[1].itemsFound # <<>>
  /\ gameState.storyBeats[2].id = 2

\* No narrative call, follow-up call or option regeneration is pending
Settled == InFlight = {} /\ ~regen /\ ~isLoading

\* C12: in every settled state each beat whose selectedOption is set has a beat
\* behind it (the one its choice led to), so the last beat carries none.
C12_SelectedOptionLeadsToNextBeat ==
  Settled =>
    \A i \in 1..Len(gameState.storyBeats) :
      gameState.storyBeats[i].selectedOption # "" => i < Len(gameState.storyBeats)

\* C13: no step writes a save while isStreaming or loadedFromSave is set, and
\* every step that changes the GameState of a started game with at least one
\* beat, neither flag set, leaves in the store the entry of the state it made.
C13_SaveGating ==
  [][/\ (storage' # storage /\ storage' # <<>> /\ nMounts' = nMounts)
          => (~isStreaming' /\ ~loadedFromSave')
     /\ (/\ gameState' # gameState
         /\ gameStarted'
         /\ Len(gameState'.storyBeats) > 0
         /\ ~isStreaming'
         /\ ~loadedFromSave')
          => storage' = <<SaveEntry(gameState', gameStarted', storyTitle')>>]_vars

\* C13 witness: a turn is streaming in a game saved before, and the store
\* still holds the entry from before the action that started the turn.
C13_UnsavedWhileStreaming ==
  /\ isStreaming
  /\ gameStarted
  /\ storage # <<>>
  /\ storage[1].gameState # gameState
  /\ Len(gameState.storyBeats) > 0

\* C14: a load that comes right after a save the storage accepted, no later
\* than the freshness window after it, returns an entry whose gameState,
\* gameStarted and storyTitle are the values that were saved.
C14_SaveLoadRoundTrip ==
  [][(/\ lastCall.op = "save" /\ lastCall.outcome = "written"
      /\ lastCall'.op = "load"
      /\ now' - now <= SevenDays)
       => /\ lastCall'.value # <<>>
          /\ lastCall'.value[1].gameState = gameState
          /\ lastCall'.value[1].gameStarted = gameStarted
          /\ lastCall'.value[1].storyTitle = storyTitle]_vars

\* C14 witness: a game with beats was saved and loaded back exactly one window
\* later, and the entry returned holds the game in memory.
C14_LoadedBackAtWindowEnd ==
  /\ lastCall.op = "load"
  /\ lastCall.after = "written"
  /\ lastCall.value # <<>>
  /\ now - lastCall.value[1].timestamp = SevenDays
  /\ lastCall.value[1].gameState = gameState
  /\ Len(gameState.storyBeats) = 2

\* C15: a load on a stored entry older than the freshness window returns null
\* and leaves the store empty, a load on an entry within the window returns it
\* and leaves it in place, and a load on an empty store returns null.
C15_ExpiredEntryIsCleared ==
  [][lastCall'.op = "load" =>
       IF savedText = <<>>
       THEN lastCall'.value = <<>> /\ savedText' = <<>>
       ELSE savedText[1].wellFormed =>
              IF now' - JsonParse(savedText[1]).timestamp > SevenDays
              THEN lastCall'.value = <<>> /\ savedText' = <<>>
              ELSE /\ lastCall'.value = <<JsonParse(savedText[1])>>
                   /\ savedText' = savedText]_vars

\* C15 witness: a load has just found an expired entry, returned null and
\* emptied the store.
C15_AfterExpiredLoad ==
  /\ lastCall.op = "load"
  /\ lastCall.outcome = "expired"
  /\ lastCall.value = <<>>
  /\ savedText = <<>>

\* C16: a save whose storage write is refused throws nothing to its caller
\* (the component stays up), leaves the game in memory and the store as they
\* were, and the game goes on accepting actions.
C16_RefusedSaveIsSwallowed ==
  /\ [][(lastCall'.op = "save" /\ lastCall'.outcome = "refused")
          => /\ ~crashed'
             /\ gameState' = gameState
             /\ gameStarted' = gameStarted
             /\ storyTitle' = storyTitle
             /\ savedText' = savedText]_vars
  /\ []((lastCall.op = "save" /\ lastCall.outcome = "refused")
          => ENABLED (\E gs \in StoreGames, started \in BOOLEAN : StorePlay(gs, started)))

\* C16 witness: the write of a game with beats has just been refused and the
\* component is up with that game.
C16_AfterRefusedSave ==
  /\ lastCall.op = "save"
  /\ lastCall.outcome = "refused"
  /\ ~crashed
  /\ Len(gameState.storyBeats) > 0
  /\ savedText = <<>>

\* The last chat call was answered with the payment-required status and a
\* redirect location
AnsweredWithRedirect ==
  /\ lastChat.site # "none"
  /\ lastChat.resp.status = PaymentRequired
  /\ lastChat.resp.location # ""

\* C17: a chat call answered with the payment-required status and a redirect
\* location stores its label as the pending-action marker, then starts the
\* redirect to the location, then ends with the redirecting failure, whatever
\* its label; it returns nothing.
C17_RedirectHandshake ==
  AnsweredWithRedirect =>
    /\ lastChat.effects = <<SetItem(lastChat.label), Navigate(lastChat.resp.location)>>
    /\ lastChat.result = Throw(Redirecting)

\* C19: a chat call answered with a non-success status, other than
\* payment-required with a redirect location, ends with the request-failed
\* error that carries the status and the body text, and does nothing to the
\* pending-action marker or to the page location.
C19_OtherFailuresAreGeneral ==
  (lastChat.site # "none" /\ ~IsOk(lastChat.resp) /\ ~AnsweredWithRedirect) =>
    /\ lastChat.result.kind = "throw"
    /\ lastChat.result.error.name = "failed"
    /\ lastChat.result.error.status = lastChat.resp.status
    /\ lastChat.result.error.body = <<lastChat.resp.body>>
    /\ lastChat.effects = <<>>

\* A call is answered with a redirect in this step: the page starts to leave
RedirectStarts == href = "" /\ href' # ""

\* C18: the caller of a call that ended with the redirecting failure neither
\* retries it nor shows it: in the step where the narrative call or a settings
\* request is answered with a redirect, no request is issued, no retry is
\* scheduled, and neither the error of the game nor the error of the setup
\* screen becomes the redirecting message.
C18_RedirectNeitherRetriedNorShown ==
  [][RedirectStarts =>
       /\ nSettings' = nSettings
       /\ nTurns' = nTurns
       /\ Len(setup'.timers) <= Len(setup.timers)
       /\ error' # RedirectingMessage
       /\ setup'.error # RedirectingMessage]_vars

\* The options call of turn t resolves in this step
OptionsSucceeded(t) == turns[t].pc = "options" /\ turns'[t].pc = "items"

\* The options call of generateNewOptions resolves in this step
RegenSucceeded == regen /\ ~regen' /\ nMounts' = nMounts /\ error' = error

\* A settings request resolves in this step
SettingsSucceeded ==
  /\ setup.mounted /\ setup'.mounted
  /\ setup.isLoadingOptions
  /\ setup'.error = ""
  /\ Len(setup'.timers) = Len(setup.timers)
  /\ Len(setup'.requests) <= Len(setup.requests)
  /\ setup' # setup

\* C20: once a chat call has returned a success status no pending-action
\* marker is stored: the step in which the narrative call, the options call of
\* a turn or of a page load, or a settings request resolves leaves the marker
\* absent.
C20_SuccessLeavesNoMarker ==
  [][(\/ \E t \in Slots : NarrativeSucceeded(t) \/ OptionsSucceeded(t)
      \/ RegenSucceeded
      \/ SettingsSucceeded)
     => pendingAction' = ""]_vars

\* The deltas and the tool-call fragments of the lines of a body that parse
RECURSIVE ContentOf(_)
ContentOf(lines) ==
  IF lines = <<>> THEN <<>>
  ELSE (IF Head(lines).kind = "json" /\ Head(lines).content # ""
        THEN <<Head(lines).content>> ELSE <<>>) \o ContentOf(Tail(lines))

RECURSIVE ToolCallsOf(_)
ToolCallsOf(lines) ==
  IF lines = <<>> THEN <<>>
  ELSE (IF Head(lines).kind = "json" THEN Head(lines).tools ELSE <<>>)
         \o ToolCallsOf(Tail(lines))

HasBadLine(lines) == \E i \in 1..Len(lines) : lines[i].kind = "bad"

\* C21: a line of the stream that does not parse as JSON is skipped and the
\* stream goes on: a call whose body is delivered line by line and holds such
\* a line still returns, and returns the deltas of the well-formed lines in
\* order.
C21_MalformedLineIsSkipped ==
  (/\ lastStream.site # "none"
   /\ HasBadLine(lastStream.lines)
   /\ \A i \in 1..Len(lastStream.cuts) : lastStream.cuts[i] # "inside")
  => /\ lastStream.out.returned
     /\ lastStream.out.content = ContentOf(lastStream.lines)

\* C22: for a body of well-formed lines onChunk is called once for every line
\* with non-empty content, in order; the content returned is those deltas in
\* order and the tool calls returned (fetchAndStream) are the fragments of all
\* lines in order.
C22_WellFormedStreamIsDelivered ==
  (lastStream.site # "none" /\ ~HasBadLine(lastStream.lines))
  => /\ lastStream.out.returned
     /\ lastStream.out.chunks = ContentOf(lastStream.lines)
     /\ lastStream.out.content = ContentOf(lastStream.lines)
     /\ lastStream.site = "fetchAndStream"
          => lastStream.out.tools = ToolCallsOf(lastStream.lines)

\* The inventory check of turn t comes back in this step with nothing to add
\* (it failed, or it found nothing)
ItemsCameBackEmpty(t) ==
  /\ turns[t].pc = "items"
  /\ turns'[t].pc = "idle"
  /\ turns'[t].result = "settled"
  /\ nextItemId' = nextItemId

\* C23: an inventory check that fails raises nothing and the turn completes:
\* in the step where the check of a turn comes back with nothing, the beats,
\* the options and the inventory stay as they were, no error is shown, the
\* turn is over, and the beat of a turn that no reset overtook is in the list.
C23_FailedInventoryCheckCompletesTurn ==
  [][\A t \in Slots : ItemsCameBackEmpty(t) =>
        /\ gameState' = gameState
        /\ error' = error
        /\ ~Active(t)'
        /\ ~turns[t].stale =>
             \E b \in 1..Len(gameState'.storyBeats) :
               gameState'.storyBeats[b].id = turns[t].id]_vars

\* A turn is complete after an inventory check that added nothing: its beat is
\* there, the options of the options call are offered, the inventory is empty
C23_SettledWithoutItems ==
  \E t \in Slots :
    /\ turns[t].result = "settled"
    /\ ~isLoading
    /\ error = ""
    /\ Len(gameState.storyBeats) = 1
    /\ Len(gameState.currentOptions) > 0
    /\ gameState.currentOptions # FallbackOptions
    /\ gameState.inventory = <<>>

\* A tool call with every required field of its tool, of the declared kind
WellFormedCall(call) ==
  /\ call.hasArgs
  /\ \/ /\ call.fn = "add_item"
        /\ call.args.item_name # ""
        /\ call.args.item_description # ""
        /\ call.args.item_type \in ItemTypes
     \/ /\ call.fn = "remove_item"
        /\ call.args.item_name # ""
        /\ call.args.reason # ""

\* The names the well-formed add_item (remove_item) calls of a list carry
RECURSIVE NamesOfWellFormed(_, _)
NamesOfWellFormed(calls, fn) ==
  IF calls = <<>> THEN <<>>
  ELSE (IF WellFormedCall(Head(calls)) /\ Head(calls).fn = fn
        THEN <<Head(calls).args.item_name>> ELSE <<>>)
         \o NamesOfWellFormed(Tail(calls), fn)

NamesOf(items) == [i \in 1..Len(items) |-> items[i].name]

\* C24: a tool call with a missing or malformed required field is skipped on
\* its own: the delta of a list of tool calls adds exactly the items of its
\* well-formed add_item calls and removes exactly the names of its well-formed
\* remove_item calls, in the order of the list.
C24_MalformedCallSkippedAlone ==
  lastDelta.op = "resolve" =>
    /\ NamesOf(lastDelta.delta.itemsToAdd) = NamesOfWellFormed(lastDelta.calls, "add_item")
    /\ lastDelta.delta.itemsToRemove = NamesOfWellFormed(lastDelta.calls, "remove_item")

\* The place of the first item of that name in an inventory, 0 when none
FirstNamed(inv, name) ==
  IF \E i \in 1..Len(inv) : inv[i].name = name
  THEN CHOOSE i \in 1..Len(inv) :
         inv[i].name = name /\ \A j \in 1..(i - 1) : inv[j].name # name
  ELSE 0

\* The answer was one remove_item call with a name and a reason
OneRemoval ==
  /\ lastDelta.op = "resolve"
  /\ Len(lastDelta.calls) = 1
  /\ lastDelta.calls[1].fn = "remove_item"
  /\ WellFormedCall(lastDelta.calls[1])

\* C25: removal is by name and takes one item: after a single
\* remove_item(name) the inventory is the one before without the first item
\* of that name, every other item in its place and order; with no item of that
\* name it is unchanged.
C25_RemovalTakesFirstOfName ==
  OneRemoval =>
    LET inv == lastDelta.inventory
        k == FirstNamed(inv, lastDelta.calls[1].args.item_name)
    IN lastDelta.after =
         IF k = 0 THEN inv
         ELSE [i \in 1..(Len(inv) - 1) |-> IF i < k THEN inv[i] ELSE inv[i + 1]]

\* One remove_item(Potion) met two Potions: the second one is still held
C25_OneOfTwoRemoved ==
  /\ OneRemoval
  /\ Len(lastDelta.inventory) = 2
  /\ \A i \in 1..2 : lastDelta.inventory[i].name = lastDelta.calls[1].args.item_name
  /\ lastDelta.after = <<lastDelta.inventory[2]>>

\* usable is derived from the type
UsableAsTyped(item) == item.usable = (item.type # "misc")

\* C26: every item of the inventory and of the itemsFound of every beat is
\* usable exactly when its type is not misc.
C26_UsableDerivedFromType ==
  /\ \A i \in 1..Len(gameState.inventory) : UsableAsTyped(gameState.inventory[i])
  /\ \A b \in 1..Len(gameState.storyBeats) :
       \A f \in 1..Len(gameState.storyBeats[b].itemsFound) :
         UsableAsTyped(gameState.storyBeats[b].itemsFound[f])

\* A misc item and an item of another type are held, each also found in a beat
C26_MiscAndUsableHeld ==
  /\ \E i \in 1..Len(gameState.inventory) :
       gameState.inventory[i].type = "misc" /\ ~gameState.inventory[i].usable
  /\ \E i \in 1..Len(gameState.inventory) :
       gameState.inventory[i].type # "misc" /\ gameState.inventory[i].usable
  /\ \E b \in 1..Len(gameState.storyBeats) :
       \E f \in 1..Len(gameState.storyBeats[b].itemsFound) :
         gameState.storyBeats[b].itemsFound[f].type = "misc"

\* The itemsFound of the beats, beat by beat
ItemsFoundOf(beats) == [b \in 1..Len(beats) |-> beats[b].itemsFound]

\* C27: an inventory delta with nothing to add and nothing to remove changes
\* neither the inventory nor the itemsFound of any beat: so it is in the step
\* where the inventory check of a turn comes back without an item.
C27_EmptyDeltaChangesNothing ==
  [][\A t \in Slots : ItemsCameBackEmpty(t) =>
        /\ gameState'.inventory = gameState.inventory
        /\ ItemsFoundOf(gameState'.storyBeats) = ItemsFoundOf(gameState.storyBeats)]_vars

\* The second turn found nothing: what the first found is still held and still
\* listed with its beat
C27_KeptThroughEmptyCheck ==
  \E t \in Slots :
    /\ turns[t].result = "settled"
    /\ nTurns = 2
    /\ nextItemId = 2
    /\ Len(gameState.storyBeats) = 2
    /\ Len(gameState.storyBeats[1].itemsFound) = 1
    /\ gameState.storyBeats[2].itemsFound = <<>>
    /\ gameState.inventory = gameState.storyBeats[1].itemsFound

\* An answer that reads yes: the letters y, e, s in either case, in a row, and
\* nothing but whitespace around them
ReadsYes(text) ==
  \E p \in 1..(Len(text) - 2) :
    /\ text[p] \in {"y", "Y"}
    /\ text[p + 1] \in {"e", "E"}
    /\ text[p + 2] \in {"s", "S"}
    /\ \A i \in 1..Len(text) : i \notin p..(p + 2) => text[i] \in Whitespace

\* C30: the chapter-end decision is true exactly for an ok answer that reads
\* YES once trimmed and upper-cased; any other answer, a status that is not
\* ok, a failed request and an answer without content all give false.
C30_DecisionOnlyOnExactYes ==
  lastDecision.op = "decide" =>
    (lastDecision.decision <=>
       (lastDecision.resp.how = "ok" /\ ReadsYes(lastDecision.resp.content)))

\* " yes" was taken for a yes
C30_PaddedLowerCaseYes ==
  /\ lastDecision.op = "decide"
  /\ lastDecision.resp = Answered(<<" ", "y", "e", "s">>)
  /\ lastDecision.decision

\* "YES." was not
C30_YesWithFullStop ==
  /\ lastDecision.op = "decide"
  /\ lastDecision.resp = Answered(<<"Y", "E", "S", ".">>)
  /\ ~lastDecision.decision

\* C28: in any sequence of turns, folds and resets, the chapter-end check is
\* invoked only while storyBeats holds at least 3 beats.
C28_NoCheckBelowThreeBeats ==
  [][nChecks' > nChecks => Len(chapterGame'.storyBeats) >= 3]_vars

\* A check was asked for on beats that grew back after a fold
C28_CheckedAgainAfterFold ==
  /\ chapterPc = "check"
  /\ chapterGame.chapters # <<>>
  /\ nChecks >= 2
  /\ Len(chapterGame.storyBeats) = 3

\* A step that folds a chapter: the summary settles and chapters are left
FoldStep ==
  /\ chapterPc = "summary"
  /\ chapterPc' = "idle"
  /\ chapterGame'.chapters # <<>>

\* C29: after a chapter-end check that returned true, chapters is longer by
\* one, its earlier chapters are as they were, the new last chapter holds the
\* beats as they stood, and storyBeats is exactly the beat that triggered the
\* check.
C29_FoldKeepsTriggeringBeat ==
  [][FoldStep =>
       /\ lastDecision.decision
       /\ Len(chapterGame'.chapters) = Len(chapterGame.chapters) + 1
       /\ \A i \in 1..Len(chapterGame.chapters) :
            chapterGame'.chapters[i] = chapterGame.chapters[i]
       /\ chapterGame'.chapters[Len(chapterGame'.chapters)].storyBeats =
            chapterGame.storyBeats
       /\ chapterGame'.storyBeats = <<Beat(nBeats)>>]_vars

\* Two chapters were folded: three beats, then the one kept and two more
C29_SecondChapterFolded ==
  /\ chapterPc = "idle"
  /\ Len(chapterGame.chapters) = 2
  /\ chapterGame.chapters[1].storyBeats = <<Beat(1), Beat(2), Beat(3)>>
  /\ chapterGame.chapters[2].storyBeats = <<Beat(3), Beat(4), Beat(5)>>
  /\ chapterGame.storyBeats = <<Beat(5)>>

\* outer is inner with blanks added in front and behind, inner has none there
Blanks(n) == [i \in 1..n |-> Blank]

Padded(inner, outer) ==
  /\ inner = <<>> \/ (inner[1] # Blank /\ inner[Len(inner)] # Blank)
  /\ \E a, b \in 0..Len(outer) : outer = Blanks(a) \o inner \o Blanks(b)

C32_AtMostThreeNonEmptyOptions ==
  LET given == lastParse.options
      utils == lastParse.inUtils
      older == lastParse.inStory
      NoPrefixedLine ==
        \A i \in 1..Len(lastParse.lines) :
          \/ lastParse.lines[i].lead
          \/ lastParse.lines[i].pre \notin {"num", "dash", "bullet"}
  IN lastParse.op = "options" =>
       /\ Len(given) <= 3 /\ Len(utils) <= 3 /\ Len(older) <= 3
       /\ \A i \in 1..Len(given) : given[i] # ""
       /\ \A i \in 1..Len(utils) : utils[i] # ""
       /\ \A i \in 1..Len(older) : older[i] # [pre |-> "none", body |-> ""]
       /\ NoPrefixedLine => (given = <<>> /\ utils = <<>> /\ older = <<>>)

\* The narrative a turn has received holds an ending marker
EndingReceived(t) ==
  /\ turns[t].pc = "narrative"
  /\ \E i \in 1..Len(turns[t].content) : turns[t].content[i] \in Markers

C34_TurnSettlesWhenCallsSettle ==
  \A t \in Slots :
    Active(t) ~> (~Active(t) /\ ~isLoading /\ ~isStreaming /\ streamingText = <<>>)

\* A turn is over after its options call was rejected and nothing is loading
C34_SettledAfterRejection ==
  /\ \E t \in Slots : turns[t].result = "optionsFailed"
  /\ \A t \in Slots : ~Active(t)
  /\ ~isLoading /\ ~isStreaming /\ streamingText = <<>>

\* C35: the live streaming text is empty whenever isStreaming is false, also
\* after a reset pressed while a stream is delivering chunks.
C35_NoLiveTextUnlessStreaming ==
  ~isStreaming => streamingText = <<>>

\* The step sends the options request or the inventory request of turn t
Dispatches(t) ==
  /\ turns'[t].pc \in {"options", "items"}
  /\ turns'[t].pc # turns[t].pc

\* C36: the inventory a turn hands to option generation and to the inventory
\* check is the inventory GameState holds when that call is dispatched; in a
\* turn started by using a consumable item it is without the consumed item.
C36_SnapshotIsCurrentInventory ==
  [][\A t \in Slots :
       Dispatches(t) => turns'[t].snap.inventory = gameState'.inventory]_vars

\* The body delivered in a single read
InOneRead(lines) == ReadsOf(lines, [i \in 1..Len(lines) |-> "none"])

\* C37: for a body of well-formed lines, however the transport cuts it into
\* reads (also inside a line), the call returns, and what it returns and the
\* calls of onChunk it makes are those of the body delivered in one read.
C37_ReadBoundariesDoNotMatter ==
  (lastStream.site # "none" /\ ~HasBadLine(lastStream.lines))
  => /\ lastStream.out.returned
     /\ lastStream.out = StreamOutcome(lastStream.site, InOneRead(lastStream.lines))

\* The beats of the persisted entry
SavedBeats == IF storage = <<>> THEN <<>> ELSE storage[1].gameState.storyBeats

\* C38: after a reset the persisted entry holds nothing of the adventure
\* played before it. resetGame can only be pressed in a started game, so the
\* first turn of a run belongs to the adventure before the reset: once a reset
\* has happened, no saved beat is the beat of that turn.
C38_NothingOfOldAdventureSaved ==
  nResets >= 1 => \A i \in 1..Len(SavedBeats) : SavedBeats[i].id # 1

\* The inventory once the items of the check are appended to it
\* (inventory: [...prev.inventory, ...newItems])
HeldAfterCheck == lastDelta.inventory \o lastDelta.delta.itemsToAdd

\* C39: every item of the inventory has one of the five item types and a name
\* and a description that are not empty, whatever the arguments of the
\* add_item calls were.
C39_HeldItemsAreWellFormed ==
  lastDelta.op # "none" =>
    \A i \in 1..Len(HeldAfterCheck) :
      /\ HeldAfterCheck[i].type \in ItemTypes
      /\ HeldAfterCheck[i].name # ""
      /\ HeldAfterCheck[i].description # ""

====
